---- MODULE Spec2Model ----
(***************************************************************************)
(* Model of the agent decision engine of video-analyzer:                   *)
(*   - applyDoubleQuitRule, the pure double-quit transition function       *)
(*     (src/src/agentRunner.ts:68-105);                                    *)
(*   - runAgent, the per-agent sequential decision loop                    *)
(*     (src/src/agentRunner.ts:294-626), with the streaming client seen    *)
(*     through the callbacks it raises and the way its promise settles.    *)
(*                                                                         *)
(* Spec      runs one runAgent call over a segment list produced by        *)
(*           segmentVideo.                                                 *)
(* SpecRule  applies applyDoubleQuitRule once to an arbitrary AgentState.  *)
(***************************************************************************)
EXTENDS Integers, Sequences, FiniteSets, TLC

\* ---------------------------------------------------------------- bounds
\* Longest segment list handed to runAgent.
MaxSegments == 3
\* Longest assistant text of one turn, in words (one onTextDelta per word).
MaxTextLen == 2
\* Largest segment index given to applyDoubleQuitRule under SpecRule.
MaxIndex == 3
\* Longest candidate model list of the client (primary and fallbacks).
MaxModels == 3
\* Most lines of a response body.
MaxLines == 2
\* Most reads of one response body.
MaxReads == 3
\* Most characters one read delivers.
MaxChunk == 6
\* Most events of one response.
MaxEvents == 3
\* Most personas of one simulation.
MaxAgents == 3

\* ------------------------------------------------------------ data model
\* An absent optional number (stopSegmentIndex?: number).
Undefined == -1

\* AgentToolName
ToolNames == {"keep_playing", "quit_video"}

\* `let tool: AgentToolName | undefined` before any valid call was seen.
NoTool == "undefined"

\* Names a provider may put on a function call; runAgent accepts only ToolNames.
CallNames == ToolNames \cup {"other_tool"}

\* initialAgentState()
initialAgentState ==
  [firstQuitSeen |-> FALSE, stopped |-> FALSE,
   stopSegmentIndex |-> Undefined, status |-> "watching"]

\* Every value of type AgentState with stopSegmentIndex up to MaxIndex.
AgentStates ==
  [firstQuitSeen : BOOLEAN, stopped : BOOLEAN,
   stopSegmentIndex : {Undefined} \cup (0..MaxIndex),
   status : {"watching", "probation", "stopped"}]

\* Mutant: the first quit_video already stops the run (no grace turn).
applyDoubleQuitRule_NoGrace(state, tool, segmentIndex) ==
  IF tool = "quit_video"
    THEN [coercedTool |-> "quit_video", decision |-> "stop",
          state |-> [state EXCEPT !.stopped = TRUE,
                                  !.stopSegmentIndex = segmentIndex,
                                  !.status = "stopped"]]
    ELSE [coercedTool |-> "keep_playing", decision |-> "continue", state |-> state]

\* Mutant: the stop branch forgets to set status (the pre-status version of
\* the rule, with the status field added to the type only).
applyDoubleQuitRule_NoStatus(state, tool, segmentIndex) ==
  IF tool = "quit_video"
    THEN IF ~state.firstQuitSeen
           THEN [coercedTool |-> "keep_playing", decision |-> "continue",
                 state |-> [state EXCEPT !.firstQuitSeen = TRUE,
                                         !.status = "probation"]]
           ELSE [coercedTool |-> "quit_video", decision |-> "stop",
                 state |-> [state EXCEPT !.stopped = TRUE,
                                         !.stopSegmentIndex = segmentIndex]]
    ELSE [coercedTool |-> "keep_playing", decision |-> "continue", state |-> state]

\* Mutant: keep_playing clears a pending first quit (quits must be consecutive).
applyDoubleQuitRule_KeepResets(state, tool, segmentIndex) ==
  IF tool = "quit_video"
    THEN IF ~state.firstQuitSeen
           THEN [coercedTool |-> "keep_playing", decision |-> "continue",
                 state |-> [state EXCEPT !.firstQuitSeen = TRUE,
                                         !.status = "probation"]]
           ELSE [coercedTool |-> "quit_video", decision |-> "stop",
                 state |-> [state EXCEPT !.stopped = TRUE,
                                         !.stopSegmentIndex = segmentIndex,
                                         !.status = "stopped"]]
    ELSE [coercedTool |-> "keep_playing", decision |-> "continue",
          state |-> [state EXCEPT !.firstQuitSeen = FALSE, !.status = "watching"]]

\* Mutant: the first quit sets firstQuitSeen but leaves status at its old value.
applyDoubleQuitRule_NoProbation(state, tool, segmentIndex) ==
  IF tool = "quit_video"
    THEN IF ~state.firstQuitSeen
           THEN [coercedTool |-> "keep_playing", decision |-> "continue",
                 state |-> [state EXCEPT !.firstQuitSeen = TRUE]]
           ELSE [coercedTool |-> "quit_video", decision |-> "stop",
                 state |-> [state EXCEPT !.stopped = TRUE,
                                         !.stopSegmentIndex = segmentIndex,
                                         !.status = "stopped"]]
    ELSE [coercedTool |-> "keep_playing", decision |-> "continue", state |-> state]

\* Mutant: the stop branch records a one-based segment number.
applyDoubleQuitRule_OneBased(state, tool, segmentIndex) ==
  IF tool = "quit_video"
    THEN IF ~state.firstQuitSeen
           THEN [coercedTool |-> "keep_playing", decision |-> "continue",
                 state |-> [state EXCEPT !.firstQuitSeen = TRUE,
                                         !.status = "probation"]]
           ELSE [coercedTool |-> "quit_video", decision |-> "stop",
                 state |-> [state EXCEPT !.stopped = TRUE,
                                         !.stopSegmentIndex = segmentIndex + 1,
                                         !.status = "stopped"]]
    ELSE [coercedTool |-> "keep_playing", decision |-> "continue", state |-> state]

\* applyDoubleQuitRule(state, tool, segmentIndex): DoubleQuitDecision
applyDoubleQuitRule(state, tool, segmentIndex) ==
  IF tool = "quit_video"
    THEN IF ~state.firstQuitSeen
           THEN [coercedTool |-> "keep_playing", decision |-> "continue",
                 state |-> [state EXCEPT !.firstQuitSeen = TRUE,
                                         !.status = "probation"]]
           ELSE [coercedTool |-> "quit_video", decision |-> "stop",
                 state |-> [state EXCEPT !.stopped = TRUE,
                                         !.stopSegmentIndex = segmentIndex,
                                         !.status = "stopped"]]
    ELSE [coercedTool |-> "keep_playing", decision |-> "continue", state |-> state]

\* segmentVideo's result for n extracted frames of a video of the given
\* duration, one frame per interval: frameFiles.map((_, idx) => ({index: idx,
\* end: Math.min((idx + 1) * intervalSeconds, durationSeconds), ...})).
\* Position k of the sequence is array slot k-1.
Segments(n, interval, duration) ==
  [k \in 1..n |->
     [index |-> k - 1,
      end |-> IF k * interval < duration THEN k * interval ELSE duration]]

\* Mutant: segments are numbered from one.
segmentVideo_OneBased(n) == [k \in 1..n |-> [index |-> k, end |-> k]]

\* segmentVideo's result for n frames at one per second of an n-second video.
segmentVideo(n) == Segments(n, 1, n)

\* ------------------------------------------- keyword inference (fallback)
\* The assistant text is a sequence of words; each regular expression of the
\* fallback is a test for the presence of one of the words it matches.
\* A field of an argument object as one piece of text, `"key": value`.  A text
\* that holds a field also holds its key, so the regular expressions that test
\* for the key match it.
ThoughtFields == {"subconscious_thought:a", "subconscious_thought:b"}
ReasonFields == {"reason_for_quitting:r"}
CuriosityFields == {"curiosity_level:7"}

QuitWords ==
  {"quit_video", "reason_for_quitting", "_for_quitting", "quit"} \cup ReasonFields
KeepWords ==
  {"keep_playing", "subconscious_thought", "curiosity_level"}
    \cup ThoughtFields \cup CuriosityFields
NegativeWords == {"boring", "low stimulation"}

\* Words the model's assistant text is drawn from: one per class and a
\* neutral one.
Vocabulary == {"quit_video", "curiosity_level", "boring", "hmm"}

Contains(text, words) == \E k \in 1..Len(text) : text[k] \in words

looksLikeQuit(text) == Contains(text, QuitWords)
looksLikeKeep(text) == Contains(text, KeepWords)

\* Mutant: any non-empty text that matches no keyword counts as a quit.
InferTool_AnyTextQuits(text) ==
  IF looksLikeQuit(text) THEN "quit_video"
  ELSE IF looksLikeKeep(text) THEN "keep_playing"
  ELSE IF Len(text) > 0 THEN "quit_video"
  ELSE "keep_playing"

\* The `if (!tool) { ... }` fallback of runAgent.
InferTool(text) ==
  IF looksLikeQuit(text) THEN "quit_video"
  ELSE IF looksLikeKeep(text) THEN "keep_playing"
  ELSE IF Len(text) > 0 /\ Contains(text, NegativeWords) THEN "quit_video"
  ELSE "keep_playing"

\* Mutant: the loop stops one segment early.
LoopContinues_OffByOne(idx, segs) == idx < Len(segs) - 1

\* The loop condition `i < segments.length`.
LoopContinues(idx, segs) == idx < Len(segs)

\* ----------------------------------------------------------------- state
VARIABLES
  segments,        \* the Segment[] given to runAgent
  toolsEmpty,      \* deps.tools.length === 0
  pc,              \* position of runAgent
  i,               \* loop variable of runAgent
  state,           \* let state: AgentState
  tool,            \* let tool: AgentToolName | undefined (this turn)
  assistantText,   \* let assistantText (this turn), as words
  usedFallback,    \* the `if (!tool)` fallback branch ran this turn
  decision,        \* result.decision of this turn ("none" before it is made)
  requests,        \* segment indexes for which streamToolCalls was invoked
  rejections,      \* loop positions at which streamToolCalls rejected
  decisionEvents,  \* payloads of events.emit("decision", ...), in order
  stopEvents,      \* payloads of events.emit("stop", ...), in order
  onDoneCalls,     \* arguments of reporter.onDone, in order
  returned,        \* the AgentRunResult runAgent resolved with (at most one)
  runError,        \* the error runAgent rejected with ("none" if none)
  ruleArgs,        \* SpecRule: the arguments of applyDoubleQuitRule
  ruleResult       \* SpecRule: its result (at most one)

runVars ==
  <<segments, toolsEmpty, pc, i, state, tool, assistantText, usedFallback,
    decision, requests, rejections, decisionEvents, stopEvents, onDoneCalls,
    returned, runError>>
ruleVars == <<ruleArgs, ruleResult>>

\* State of one OpenRouterClient.streamToolCalls call (SpecClient).
VARIABLES
  models,          \* this.models: the candidate list, primary first
  maxAttempts,     \* this.maxAttempts
  hasImage,        \* messagesIncludeImage(options.messages)
  signalAborted,   \* options.signal.aborted
  cpc,             \* position of streamToolCalls
  attempt,         \* loop variable attempt (0-based)
  response,        \* the response of the current attempt
  sleepArmed,      \* the abort listener of the pending sleep can still fire
  fetches,         \* the model of every fetch issued, in order
  sleeps,          \* the attempt number of every backoff sleep started
  attemptLog,      \* how each attempt's request ended, in order
  modelSelected,   \* arguments of callbacks.onModelSelected, in order
  clientError      \* the error streamToolCalls rejected with

clientVars ==
  <<models, maxAttempts, hasImage, signalAborted, cpc, attempt, response,
    sleepArmed, fetches, sleeps, attemptLog, modelSelected, clientError>>

\* Line buffering of one 2xx response body (SpecLines).
VARIABLES
  content,         \* the characters of the response body, in order
  readPos,         \* how many of them reader.read() has delivered
  readSizes,       \* the length of the chunk of every read so far
  buffer,          \* let buffer: the trailing partial line
  linePayloads,    \* payload of every event line processed, in order
  lpc              \* position of the read loop

lineVars == <<content, readPos, readSizes, buffer, linePayloads, lpc>>

\* Tool-call merging over the parsed events of one 2xx response (SpecCalls).
VARIABLES
  provided,          \* the parsed events processed so far, in order
  partialToolCalls,  \* const partialToolCalls, by positional index
  functionCalls,     \* arguments of callbacks.onFunctionCall, in order
  argumentsDone,     \* arguments of callbacks.onArgumentsDone, in order
  finishReasons,     \* arguments of callbacks.onFinish, in order
  textDeltas,        \* arguments of callbacks.onTextDelta, in order
  kpc                \* position of the event loop

callVars ==
  <<provided, partialToolCalls, functionCalls, argumentsDone, finishReasons,
    textDeltas, kpc>>

streamVars == <<lineVars, callVars>>

\* The orchestrator buildSimulation and its agents (SpecOrch).
VARIABLES
  agentCount,      \* personas.length
  runStatus,       \* per persona: the state of its runAgent promise
  runResult,       \* per persona: the AgentRunResult it resolved with
  finishOrder,     \* personas in the order their runs settled
  opc,             \* position of buildSimulation
  summaryRows,     \* summary.perAgent once summarizeSimulation ran
  joinError,       \* the persona whose error the join rejected with (0: none)
  cancelledAt      \* how many runs had settled when the caller went away

orchVars ==
  <<agentCount, runStatus, runResult, finishOrder, opc, summaryRows,
    joinError, cancelledAt>>

\* One call of summarizeSimulation (SpecSummary).
VARIABLES
  sumArgs,         \* its arguments: segments and results
  sumResult        \* its result (at most one)

summaryVars == <<sumArgs, sumResult>>

\* The variables of the specifications of the smaller components.
\* The turn of runAgent in detail: arguments and memory (SpecTurns).
VARIABLES
  accumulatedArgs,  \* let accumulatedArgs (this turn), as pieces of text
  firstValid,       \* the first valid tool name observed this turn
  shortTermMemory,  \* const shortTermMemory: string[]
  contexts,         \* memoryContext of each streamToolCalls call, in order
  recovered,        \* argsObj.subconscious_thought of each decision, in order
  inFlight          \* streamToolCalls calls issued and not yet settled

turnVars ==
  <<accumulatedArgs, firstValid, shortTermMemory, contexts, recovered, inFlight>>

\* Several runAgent calls side by side (SpecAgents).
VARIABLES
  personaCount,     \* personas.length
  agents,           \* per persona: position, i, state, context, responses, result
  memories,         \* the shortTermMemory lists, by owner
  atFailure         \* per persona: position and responses handled when the
                    \* batch failed (empty before)

agentsVars == <<personaCount, agents, memories, atFailure>>

\* One recorder made by createAgentOutputRecorder (SpecRecorder).
VARIABLES
  recordCalls,      \* number of record() calls so far; call k passes record k
  chain,            \* records whose append waits on the chain, in order
  appending,        \* records whose appendFile call is running
  file,             \* the file, as the parts of lines written so far
  failedAt,         \* the record whose appendFile rejected (0 if none)
  flushes           \* the flush() calls, in order, with their outcome

recorderVars == <<recordCalls, chain, appending, file, failedAt, flushes>>

\* One MultiAgentProgressUi and its output stream (SpecUi).
VARIABLES
  isTTY,             \* stream.isTTY
  started,           \* this.started
  scheduled,         \* this.scheduled: a render microtask is queued
  usingAltScreen,    \* this.usingAltScreen
  wroteFinalSummary, \* this.wroteFinalSummary
  uiLog              \* the calls made and the writes on the stream, in order

uiVars ==
  <<isTTY, started, scheduled, usingAltScreen, wroteFinalSummary, uiLog>>

\* One streamToolCalls call as a turn of runAgent sees it (SpecCapture).
VARIABLES
  logModelOutput,   \* deps.logModelOutput ?? false
  attemptLimit,     \* Math.min(this.maxAttempts, this.models.length)
  attemptNo,        \* the attempt running (loop variable attempt, 0-based)
  attemptLocals,    \* what tool, accumulatedArgs and assistantText would hold
                    \* had they been declared when this attempt began
  quietArgs,        \* what accumulatedArgs would hold had onEvent returned
                    \* at its first line
  outcome           \* how the streamToolCalls call settled

captureVars ==
  <<logModelOutput, attemptLimit, attemptNo, attemptLocals, quietArgs,
    outcome>>

moreVars ==
  <<summaryVars, turnVars, agentsVars, recorderVars, uiVars, captureVars>>

coreVars == <<ruleVars, clientVars, streamVars, orchVars>>
notSummaryVars ==
  <<runVars, coreVars, turnVars, agentsVars, recorderVars, uiVars, captureVars>>
notTurnVars ==
  <<coreVars, summaryVars, agentsVars, recorderVars, uiVars, captureVars>>
notAgentsVars ==
  <<runVars, coreVars, summaryVars, turnVars, recorderVars, uiVars, captureVars>>
notRecorderVars ==
  <<runVars, coreVars, summaryVars, turnVars, agentsVars, uiVars, captureVars>>
notUiVars ==
  <<runVars, coreVars, summaryVars, turnVars, agentsVars, recorderVars,
    captureVars>>

\* What each specification leaves alone.
notRunVars == <<ruleVars, clientVars, streamVars, orchVars, moreVars>>
notRuleVars == <<runVars, clientVars, streamVars, orchVars, moreVars>>
notClientVars == <<runVars, ruleVars, streamVars, orchVars, moreVars>>

vars == <<runVars, ruleVars, clientVars, streamVars, orchVars, moreVars>>

\* Status and body of a response as streamToolCalls reads them.  imageMsg:
\* the parsed error message contains "support image input"; saysAborted: the
\* body text contains "aborted"; body: response.body is readable.
NoResponse ==
  [status |-> 0, imageMsg |-> FALSE, saysAborted |-> FALSE, body |-> FALSE]

\* An error value: what makes it, the model it names, the HTTP status it
\* reports (0 if none), whether its name is AbortError, whether its message contains "aborted", and whether it is the
\* catch block's wrapper `OpenRouter request failed for model ...`.
NoError ==
  [kind |-> "none", model |-> "none", status |-> 0, abortName |-> FALSE,
   saysAborted |-> FALSE, wrapped |-> FALSE]

ClientIdle ==
  /\ models = <<"A">>
  /\ maxAttempts = 1
  /\ hasImage = FALSE
  /\ signalAborted = FALSE
  /\ cpc = "idle"
  /\ attempt = 0
  /\ response = NoResponse
  /\ sleepArmed = FALSE
  /\ fetches = <<>>
  /\ sleeps = <<>>
  /\ attemptLog = <<>>
  /\ modelSelected = <<>>
  /\ clientError = NoError

StreamIdle ==
  /\ content = <<>>
  /\ readPos = 0
  /\ readSizes = <<>>
  /\ buffer = <<>>
  /\ linePayloads = <<>>
  /\ lpc = "idle"
  /\ provided = <<>>
  /\ partialToolCalls = <<>>
  /\ functionCalls = <<>>
  /\ argumentsDone = <<>>
  /\ finishReasons = <<>>
  /\ textDeltas = <<>>
  /\ kpc = "idle"

OrchIdle ==
  /\ agentCount = 0
  /\ runStatus = <<>>
  /\ runResult = <<>>
  /\ finishOrder = <<>>
  /\ opc = "idle"
  /\ summaryRows = <<>>
  /\ joinError = 0
  /\ cancelledAt = Undefined

SummaryIdle ==
  /\ sumArgs = [segments |-> <<>>, results |-> <<>>]
  /\ sumResult = <<>>

TurnIdle ==
  /\ accumulatedArgs = <<>>
  /\ firstValid = NoTool
  /\ shortTermMemory = <<>>
  /\ contexts = <<>>
  /\ recovered = <<>>
  /\ inFlight = 0

AgentsIdle ==
  /\ personaCount = 0
  /\ agents = <<>>
  /\ memories = <<>>
  /\ atFailure = <<>>

\* `await writeFile(filePath, "", "utf8"); let chain = Promise.resolve();`
RecorderIdle ==
  /\ recordCalls = 0
  /\ chain = <<>>
  /\ appending = {}
  /\ file = <<>>
  /\ failedAt = 0
  /\ flushes = <<>>

\* The fields after the constructor of MultiAgentProgressUi.
UiIdle ==
  /\ isTTY = FALSE
  /\ started = FALSE
  /\ scheduled = FALSE
  /\ usingAltScreen = FALSE
  /\ wroteFinalSummary = FALSE
  /\ uiLog = <<>>

\* The turn's locals as declared at agentRunner.ts:358-362.
FreshLocals == [tool |-> NoTool, args |-> <<>>, text |-> <<>>]

CaptureIdle ==
  /\ logModelOutput = FALSE
  /\ attemptLimit = 1
  /\ attemptNo = 0
  /\ attemptLocals = FreshLocals
  /\ quietArgs = <<>>
  /\ outcome = "pending"

MoreIdle ==
  /\ SummaryIdle /\ TurnIdle /\ AgentsIdle /\ RecorderIdle /\ UiIdle
  /\ CaptureIdle

\* The segment of the current loop iteration: segments[i].
segment == segments[i + 1]

RunIdle ==
  /\ pc = "start"
  /\ i = 0
  /\ state = initialAgentState
  /\ tool = NoTool
  /\ assistantText = <<>>
  /\ usedFallback = FALSE
  /\ decision = "none"
  /\ requests = <<>>
  /\ rejections = {}
  /\ decisionEvents = <<>>
  /\ stopEvents = <<>>
  /\ onDoneCalls = <<>>
  /\ returned = <<>>
  /\ runError = "none"

RuleIdle ==
  /\ ruleArgs = [state |-> initialAgentState, tool |-> "keep_playing",
                 segmentIndex |-> 0]
  /\ ruleResult = <<>>

Init ==
  /\ \E n \in 0..MaxSegments : segments = segmentVideo(n)
  /\ toolsEmpty \in BOOLEAN
  /\ RunIdle
  /\ RuleIdle
  /\ ClientIdle
  /\ StreamIdle
  /\ OrchIdle
  /\ MoreIdle

\* ------------------------------------------------------------- runAgent
\* Entry of runAgent: the two early returns, else the first loop iteration.
\* Neither early return calls reporter.onDone.
Start ==
  /\ pc = "start"
  /\ IF Len(segments) = 0 \/ toolsEmpty
       THEN /\ returned' = <<[stopSegmentIndex |-> Undefined]>>
            /\ pc' = "returned"
       ELSE /\ pc' = "read"
            /\ UNCHANGED returned
  /\ state' = initialAgentState
  /\ i' = 0
  /\ UNCHANGED <<segments, toolsEmpty, tool, assistantText, usedFallback,
                 decision, requests, rejections, decisionEvents, stopEvents,
                 onDoneCalls, runError, notRunVars>>

\* `await readJpegDataUrl(segment.framePath)` resolves: the turn's locals are
\* declared and streamToolCalls is invoked for this segment.
ReadFrameOk ==
  /\ pc = "read"
  /\ tool' = NoTool
  /\ assistantText' = <<>>
  /\ usedFallback' = FALSE
  /\ decision' = "none"
  /\ requests' = Append(requests, segment.index)
  /\ pc' = "stream"
  /\ UNCHANGED <<segments, toolsEmpty, i, state, rejections, decisionEvents,
                 stopEvents, onDoneCalls, returned, runError, notRunVars>>

\* `await readJpegDataUrl(segment.framePath)` rejects (the frame file cannot
\* be read): the error leaves runAgent.
ReadFrameFail ==
  /\ pc = "read"
  /\ pc' = "rejected"
  /\ runError' = "frame"
  /\ UNCHANGED <<segments, toolsEmpty, i, state, tool, assistantText,
                 usedFallback, decision, requests, rejections, decisionEvents,
                 stopEvents, onDoneCalls, returned, notRunVars>>

\* callbacks.onFunctionCall: a call named keep_playing or quit_video sets tool.
OnFunctionCall(name) ==
  /\ pc = "stream"
  /\ tool' = IF name \in ToolNames THEN name ELSE tool
  /\ UNCHANGED <<segments, toolsEmpty, pc, i, state, assistantText,
                 usedFallback, decision, requests, rejections, decisionEvents,
                 stopEvents, onDoneCalls, returned, runError, notRunVars>>

\* callbacks.onTextDelta: assistantText += text.
OnTextDelta(word) ==
  /\ pc = "stream"
  /\ Len(assistantText) < MaxTextLen
  /\ assistantText' = Append(assistantText, word)
  /\ UNCHANGED <<segments, toolsEmpty, pc, i, state, tool, usedFallback,
                 decision, requests, rejections, decisionEvents, stopEvents,
                 onDoneCalls, returned, runError, notRunVars>>

\* The synchronous part of the loop body after the try/catch around
\* streamToolCalls, up to `await deps.outputRecorder?.record(...)`: tool
\* fallback, applyDoubleQuitRule, the "decision" event.
AfterStream ==
  LET fallback == tool = NoTool
      t == IF fallback THEN InferTool(assistantText) ELSE tool
      result == applyDoubleQuitRule(state, t, segment.index)
  IN  IF t = NoTool
        THEN \* throw new Error("Model did not call a tool ...")
             /\ pc' = "rejected"
             /\ runError' = "no_tool"
             /\ UNCHANGED <<state, tool, usedFallback, decision, decisionEvents>>
        ELSE /\ tool' = t
             /\ usedFallback' = fallback
             /\ state' = result.state
             /\ decision' = result.decision
             /\ decisionEvents' =
                  Append(decisionEvents,
                         [segmentIndex |-> segment.index, tool |-> t,
                          decision |-> result.decision, state |-> result.state])
             /\ pc' = "record"
             /\ UNCHANGED runError

\* streamToolCalls resolves.
ClientResolve ==
  /\ pc = "stream"
  /\ AfterStream
  /\ UNCHANGED <<segments, toolsEmpty, i, assistantText, requests, rejections,
                 stopEvents, onDoneCalls, returned, notRunVars>>

\* streamToolCalls rejects: `catch (err) { if (!tool) throw err; }`.
ClientReject ==
  /\ pc = "stream"
  /\ rejections' = rejections \cup {i}
  /\ IF tool = NoTool
       THEN /\ pc' = "rejected"
            /\ runError' = "client"
            /\ UNCHANGED <<state, tool, usedFallback, decision, decisionEvents>>
       ELSE AfterStream
  /\ UNCHANGED <<segments, toolsEmpty, i, assistantText, requests, stopEvents,
                 onDoneCalls, returned, notRunVars>>

\* Mutant: a stop decision does not leave the loop.
RecordSettled_NoReturnOnStop ==
  /\ pc = "record"
  /\ IF LoopContinues(i + 1, segments)
       THEN /\ pc' = "read"
            /\ UNCHANGED <<onDoneCalls, returned>>
       ELSE /\ onDoneCalls' = Append(onDoneCalls, [stopSegmentIndex |-> Undefined])
            /\ returned' = <<[stopSegmentIndex |-> Undefined]>>
            /\ pc' = "returned"
  /\ i' = i + 1
  /\ UNCHANGED stopEvents
  /\ UNCHANGED <<segments, toolsEmpty, state, tool, assistantText,
                 usedFallback, decision, requests, rejections, decisionEvents,
                 runError, notRunVars>>

\* `await deps.outputRecorder?.record(...)` settles (a failure is caught and
\* logged); then the stop check, the loop increment and the final return.
RecordSettled ==
  /\ pc = "record"
  /\ IF decision = "stop"
       THEN /\ stopEvents' =
                 Append(stopEvents, [stopSegmentIndex |-> state.stopSegmentIndex])
            /\ onDoneCalls' =
                 Append(onDoneCalls, [stopSegmentIndex |-> state.stopSegmentIndex])
            /\ returned' = <<[stopSegmentIndex |-> state.stopSegmentIndex]>>
            /\ pc' = "returned"
            /\ UNCHANGED i
       ELSE /\ IF LoopContinues(i + 1, segments)
                 THEN /\ pc' = "read"
                      /\ UNCHANGED <<onDoneCalls, returned>>
                 ELSE /\ onDoneCalls' =
                           Append(onDoneCalls, [stopSegmentIndex |-> Undefined])
                      /\ returned' = <<[stopSegmentIndex |-> Undefined]>>
                      /\ pc' = "returned"
            /\ i' = i + 1
            /\ UNCHANGED stopEvents
  /\ UNCHANGED <<segments, toolsEmpty, state, tool, assistantText,
                 usedFallback, decision, requests, rejections, decisionEvents,
                 runError, notRunVars>>

Next ==
  \/ Start
  \/ ReadFrameOk
  \/ ReadFrameFail
  \/ \E name \in CallNames : OnFunctionCall(name)
  \/ \E word \in Vocabulary : OnTextDelta(word)
  \/ ClientResolve
  \/ ClientReject
  \/ RecordSettled

Spec == Init /\ [][Next]_vars

\* ------------------------------------------- applyDoubleQuitRule alone
RuleInit ==
  /\ segments = <<>>
  /\ toolsEmpty = FALSE
  /\ RunIdle
  /\ ruleArgs \in [state : AgentStates, tool : ToolNames,
                   segmentIndex : 0..MaxIndex]
  /\ ruleResult = <<>>
  /\ ClientIdle
  /\ StreamIdle
  /\ OrchIdle
  /\ MoreIdle

\* One call applyDoubleQuitRule(state, tool, segmentIndex).
RuleApply ==
  /\ ruleResult = <<>>
  /\ ruleResult' =
       <<applyDoubleQuitRule(ruleArgs.state, ruleArgs.tool, ruleArgs.segmentIndex)>>
  /\ UNCHANGED <<ruleArgs, notRuleVars>>

RuleNext == RuleApply

SpecRule == RuleInit /\ [][RuleNext]_vars

\* ================================================================ claims
\* The single result of the call made under SpecRule.
RuleOut == ruleResult[1]

\* C1: for every AgentState with firstQuitSeen = FALSE and every segment
\* index, applyDoubleQuitRule(state, quit_video, i) gives decision continue
\* and coercedTool keep_playing, and the returned state has firstQuitSeen =
\* TRUE and status probation, with stopped and stopSegmentIndex unchanged.
C1_FirstQuitCoerced ==
  (ruleResult # <<>> /\ ruleArgs.tool = "quit_video"
     /\ ~ruleArgs.state.firstQuitSeen)
  => /\ RuleOut.decision = "continue"
     /\ RuleOut.coercedTool = "keep_playing"
     /\ RuleOut.state.firstQuitSeen = TRUE
     /\ RuleOut.state.status = "probation"
     /\ RuleOut.state.stopped = ruleArgs.state.stopped
     /\ RuleOut.state.stopSegmentIndex = ruleArgs.state.stopSegmentIndex

\* C1 witness: the rule was applied to quit_video on a state that had seen no
\* quit, was not in probation and carried a stop index to preserve.
C1_Witness ==
  /\ ruleResult # <<>>
  /\ ruleArgs.tool = "quit_video"
  /\ ~ruleArgs.state.firstQuitSeen
  /\ ruleArgs.state.status = "watching"
  /\ ruleArgs.state.stopSegmentIndex = 2
  /\ RuleOut.state.status = "probation"

\* C2: for every AgentState with firstQuitSeen = TRUE and every segment index
\* i, applyDoubleQuitRule(state, quit_video, i) gives decision stop and
\* coercedTool quit_video, and the returned state has stopped = TRUE,
\* stopSegmentIndex = i and status stopped.
C2_SecondQuitStops ==
  (ruleResult # <<>> /\ ruleArgs.tool = "quit_video"
     /\ ruleArgs.state.firstQuitSeen)
  => /\ RuleOut.decision = "stop"
     /\ RuleOut.coercedTool = "quit_video"
     /\ RuleOut.state.stopped = TRUE
     /\ RuleOut.state.stopSegmentIndex = ruleArgs.segmentIndex
     /\ RuleOut.state.status = "stopped"

\* C2 witness: the rule was applied to quit_video at segment 3 on a state with
\* firstQuitSeen = TRUE that was not stopped (the case of the unit test).
C2_Witness ==
  /\ ruleResult # <<>>
  /\ ruleArgs.tool = "quit_video"
  /\ ruleArgs.state.firstQuitSeen
  /\ ~ruleArgs.state.stopped
  /\ ruleArgs.state.status = "watching"
  /\ ruleArgs.segmentIndex = 3
  /\ RuleOut.decision = "stop"

\* C6: applyDoubleQuitRule(state, keep_playing, i) gives decision continue and
\* coercedTool keep_playing and returns the input state unchanged, for every
\* state and every i.
C6_KeepPlayingFrame ==
  (ruleResult # <<>> /\ ruleArgs.tool = "keep_playing")
  => /\ RuleOut.decision = "continue"
     /\ RuleOut.coercedTool = "keep_playing"
     /\ RuleOut.state.firstQuitSeen = ruleArgs.state.firstQuitSeen
     /\ RuleOut.state.status = ruleArgs.state.status
     /\ RuleOut.state.stopped = ruleArgs.state.stopped
     /\ RuleOut.state.stopSegmentIndex = ruleArgs.state.stopSegmentIndex

\* C6 witness: the rule was applied to keep_playing on a state in probation.
C6_Witness ==
  /\ ruleResult # <<>>
  /\ ruleArgs.tool = "keep_playing"
  /\ ruleArgs.state.firstQuitSeen
  /\ ruleArgs.state.status = "probation"
  /\ RuleOut.decision = "continue"

\* The turns runAgent has decided so far (one "decision" event per turn).
Turns == 1..Len(decisionEvents)

\* The agent state a turn started from.
StateBefore(k) ==
  IF k = 1 THEN initialAgentState ELSE decisionEvents[k - 1].state

\* C3 as stated: runAgent produces decision stop at a segment only if the
\* tool observed at that segment and the tool observed at the immediately
\* preceding segment were both quit_video.
C3_ConsecutiveQuitsOnly ==
  \A k \in Turns :
    decisionEvents[k].decision = "stop"
    => /\ decisionEvents[k].tool = "quit_video"
       /\ k > 1
       /\ decisionEvents[k - 1].tool = "quit_video"

\* C3 amended: runAgent produces decision stop at a segment only if the tool
\* observed at that segment is quit_video and quit_video was observed at some
\* earlier segment of the same run, not necessarily the one just before.
C3_SecondQuitOnly ==
  \A k \in Turns :
    decisionEvents[k].decision = "stop"
    => /\ decisionEvents[k].tool = "quit_video"
       /\ \E j \in 1..(k - 1) : decisionEvents[j].tool = "quit_video"

\* C3 witness: a run stopped by a quit_video whose preceding turn was
\* keep_playing.
C3_Witness ==
  \E k \in Turns :
    /\ k > 1
    /\ decisionEvents[k].decision = "stop"
    /\ decisionEvents[k - 1].tool = "keep_playing"

\* status = stopped, stopped = TRUE and stopSegmentIndex set coincide in st.
StoppedCoincide(st) ==
  /\ (st.status = "stopped") <=> st.stopped
  /\ st.stopped <=> (st.stopSegmentIndex # Undefined)

\* C4: in every AgentState reachable inside runAgent, status = stopped iff
\* stopped = TRUE iff stopSegmentIndex is set.
C4_StoppedCoincide ==
  /\ StoppedCoincide(state)
  /\ \A k \in Turns : StoppedCoincide(decisionEvents[k].state)

\* C4 witness: runAgent holds a stopped state.
C4_Witness == state.status = "stopped" /\ state.stopped

\* idx is a valid index into the segment list given to runAgent.
ValidIndex(idx) == 0 <= idx /\ idx < Len(segments)

\* C5: whenever the agent's state or result carries a stopSegmentIndex, it is
\* a valid index into the segment list the agent was given.
C5_StopIndexValid ==
  /\ state.stopSegmentIndex # Undefined => ValidIndex(state.stopSegmentIndex)
  /\ \A k \in 1..Len(returned) :
       returned[k].stopSegmentIndex # Undefined
       => ValidIndex(returned[k].stopSegmentIndex)
  /\ \A k \in 1..Len(stopEvents) : ValidIndex(stopEvents[k].stopSegmentIndex)

\* C5 witness: runAgent returned a result that stops at the last segment.
C5_Witness ==
  /\ pc = "returned"
  /\ returned # <<>>
  /\ returned[1].stopSegmentIndex = Len(segments) - 1

\* C7: if the decision at some segment is stop, runAgent terminates at that
\* segment: it returns stopSegmentIndex = that segment's index, issues no
\* request for a later segment and applies no further transition.
C7_StopTerminates ==
  \A k \in Turns :
    decisionEvents[k].decision = "stop"
    => /\ k = Len(decisionEvents)
       /\ Len(requests) = k
       /\ requests[k] = decisionEvents[k].segmentIndex
       /\ state = decisionEvents[k].state
       /\ pc \in {"record", "returned"}
       /\ pc = "returned"
          => returned = <<[stopSegmentIndex |-> decisionEvents[k].segmentIndex]>>

\* C7 witness: runAgent returned after a stop with segments left unwatched.
C7_Witness ==
  /\ pc = "returned"
  /\ decision = "stop"
  /\ returned[1].stopSegmentIndex + 1 < Len(segments)

\* No turn of the run so far decided stop.
NoStopDecision == \A k \in Turns : decisionEvents[k].decision # "stop"

\* The client was invoked exactly once per segment, in segment order.
OncePerSegment ==
  /\ Len(requests) = Len(segments)
  /\ \A k \in 1..Len(requests) : requests[k] = segments[k].index

\* C8 as stated: if no segment yields decision stop, runAgent invokes the
\* client exactly once per segment and then returns a result with
\* stopSegmentIndex absent.
C8_ExhaustedOncePerSegment ==
  (pc = "returned" /\ NoStopDecision)
  => /\ OncePerSegment
     /\ returned = <<[stopSegmentIndex |-> Undefined]>>

\* C8 amended: if no segment yields decision stop and the tool list is not
\* empty, runAgent invokes the client exactly once per segment and then
\* returns a result with stopSegmentIndex absent; with an empty tool list it
\* returns that result without invoking the client.
C8_ExhaustedOncePerSegmentWithTools ==
  (pc = "returned" /\ NoStopDecision)
  => /\ returned = <<[stopSegmentIndex |-> Undefined]>>
     /\ IF toolsEmpty THEN requests = <<>> ELSE OncePerSegment

\* C8 witness: a run over two or more segments with tools returned without a
\* stop while the agent was in probation.
C8_Witness ==
  /\ pc = "returned"
  /\ ~toolsEmpty
  /\ Len(segments) >= 2
  /\ NoStopDecision
  /\ state.status = "probation"

\* The keyword inference matches nothing in text.
MatchesNothing(text) ==
  /\ ~looksLikeQuit(text)
  /\ ~looksLikeKeep(text)
  /\ ~Contains(text, NegativeWords)

\* C9: when the provider emits no valid tool call for a segment the turn is
\* not an error; runAgent infers the tool from the assistant text, and if
\* nothing matches the turn is keep_playing with decision continue and the
\* agent state unchanged.
C9_NoToolDefaultsToKeep ==
  /\ runError # "no_tool"
  /\ (pc = "record" /\ usedFallback /\ MatchesNothing(assistantText))
     => /\ decisionEvents[Len(decisionEvents)].tool = "keep_playing"
        /\ decisionEvents[Len(decisionEvents)].decision = "continue"
        /\ state = StateBefore(Len(decisionEvents))

\* C9 witness: a turn in probation with no tool call and a non-empty text
\* that matches no keyword was decided.
C9_Witness ==
  /\ pc = "record"
  /\ usedFallback
  /\ assistantText # <<>>
  /\ MatchesNothing(assistantText)
  /\ state.status = "probation"

\* C10: whenever streamToolCalls rejects for a segment, runAgent rejects with
\* that error; the error is never turned into a decision.
C10_ClientErrorPropagates ==
  rejections # {} => (pc = "rejected" /\ runError = "client")

\* The turns of the run that reached their decision.
DecidedTurns ==
  IF pc = "stream" \/ (pc = "rejected" /\ runError # "frame")
    THEN Len(requests) - 1
    ELSE Len(requests)

\* C33: exactly one decision event is emitted per processed segment, in
\* segment order; a stop event is emitted at most once, only for a turn whose
\* decision is stop, after that turn's decision event and together with the
\* return of the result, and no event follows it.
C33_EventsPerTurn ==
  /\ Len(decisionEvents) = DecidedTurns
  /\ \A k \in 1..Len(decisionEvents) :
       decisionEvents[k].segmentIndex = segments[k].index
  /\ Len(stopEvents) <= 1
  /\ stopEvents # <<>>
     => /\ pc = "returned"
        /\ decisionEvents # <<>>
        /\ decisionEvents[Len(decisionEvents)].decision = "stop"
        /\ stopEvents[1].stopSegmentIndex =
             decisionEvents[Len(decisionEvents)].segmentIndex
        /\ returned = <<[stopSegmentIndex |-> stopEvents[1].stopSegmentIndex]>>
  /\ (pc = "returned" /\ decisionEvents # <<>>
      /\ decisionEvents[Len(decisionEvents)].decision = "stop")
     => Len(stopEvents) = 1
  /\ (pc = "returned" /\ stopEvents = <<>>)
     => returned = <<[stopSegmentIndex |-> Undefined]>>

\* C33 witness: the agent stopped at the second of three segments: two
\* decision events, then one stop event, and the result.
C33_Witness ==
  /\ pc = "returned"
  /\ Len(segments) = 3
  /\ Len(decisionEvents) = 2
  /\ decisionEvents[1].decision = "continue"
  /\ decisionEvents[2].decision = "stop"
  /\ stopEvents = <<[stopSegmentIndex |-> 1]>>

\* C38: reporter.onDone is invoked exactly once, with the result, for every
\* runAgent call that returns a result, also for a run over an empty segment
\* list or with an empty tool list.
C38_OnDoneOncePerResult ==
  pc = "returned" => onDoneCalls = returned

\* C39: among the decision events of one agent at most one has tool
\* quit_video with decision continue, every later quit_video event has
\* decision stop, at most one event has decision stop and it is the last,
\* and in every event decision is stop exactly when the emitted state has
\* stopped = TRUE.
C39_DecisionStream ==
  /\ \A j, k \in 1..Len(decisionEvents) :
       (/\ j < k
        /\ decisionEvents[j].tool = "quit_video"
        /\ decisionEvents[k].tool = "quit_video")
       => /\ decisionEvents[j].decision = "continue"
          /\ decisionEvents[k].decision = "stop"
  /\ \A k \in 1..Len(decisionEvents) :
       /\ decisionEvents[k].decision = "stop" => k = Len(decisionEvents)
       /\ decisionEvents[k].decision = "stop" <=> decisionEvents[k].state.stopped
       /\ decisionEvents[k].decision \in {"continue", "stop"}

\* C39 witness: quit_video, keep_playing, quit_video: the first quit is the
\* probation turn and the second one stops although a keep_playing came
\* between them.
C39_Witness ==
  /\ Len(decisionEvents) = 3
  /\ decisionEvents[1].tool = "quit_video"
  /\ decisionEvents[1].decision = "continue"
  /\ decisionEvents[2].tool = "keep_playing"
  /\ decisionEvents[3].tool = "quit_video"
  /\ decisionEvents[3].decision = "stop"
  /\ decisionEvents[3].state.stopped

\* ====================================== OpenRouterClient.streamToolCalls
\* The retry loop of streamToolCalls: one attempt per candidate model, the
\* handling of non-2xx responses, the catch block, the backoff sleep and the
\* cancellation signal.  The body of a 2xx response is read here without
\* looking at its content (SpecLines and SpecCalls do that).

ModelNames == <<"A", "B", "C", "D", "E">>

\* [model, ...fallbackModels].filter(Boolean) for n candidates.
ModelList(n) == SubSeq(ModelNames, 1, n)

Min(a, b) == IF a < b THEN a ELSE b

\* Mutant: every listed model may be tried, whatever maxAttempts says.
Limit_AllModels == Len(models)

\* Math.min(this.maxAttempts, this.models.length)
Limit == Min(maxAttempts, Len(models))

\* Mutant: every attempt uses the primary model.
ModelAt_Primary(a) == models[1]

\* const model = this.models[attempt]
ModelAt(a) == models[a + 1]

\* const isLast = attempt + 1 >= Math.min(this.maxAttempts, this.models.length)
isLast(a) == a + 1 >= Limit

\* A response with the given status and body properties.
Resp(st, m, x, b) ==
  [status |-> st, imageMsg |-> m, saysAborted |-> x, body |-> b]

\* The responses fetch may resolve with: 2xx with and without a readable
\* body; rate limit and server error; a plain client error; a 404 with and
\* without the image-input message; bodies that contain "aborted".
Responses ==
  {Resp(200, FALSE, FALSE, TRUE), Resp(200, FALSE, FALSE, FALSE),
   Resp(429, FALSE, FALSE, TRUE), Resp(429, FALSE, TRUE, TRUE),
   Resp(503, FALSE, FALSE, TRUE),
   Resp(400, FALSE, FALSE, TRUE), Resp(400, FALSE, TRUE, TRUE),
   Resp(404, FALSE, FALSE, TRUE), Resp(404, TRUE, FALSE, TRUE),
   Resp(404, TRUE, TRUE, TRUE)}

\* response.status === 429 || response.status >= 500
Retryable(resp) == resp.status = 429 \/ resp.status >= 500

\* response.status === 404 && hasImage && errorMessage &&
\* errorMessage.toLowerCase().includes("support image input")
ImageUnsupported(resp) == resp.status = 404 /\ hasImage /\ resp.imageMsg

\* The rejection of fetch, response.text() or reader.read() on an aborted
\* signal: a DOMException named AbortError ("The operation was aborted.").
AbortErr ==
  [kind |-> "abort", model |-> "none", status |-> 0, abortName |-> TRUE,
   saysAborted |-> TRUE, wrapped |-> FALSE]

\* A network, TLS or stream error; x: its message contains "aborted".
NetworkErr(x) ==
  [kind |-> "network", model |-> "none", status |-> 0, abortName |-> FALSE,
   saysAborted |-> x, wrapped |-> FALSE]

\* new Error(`OpenRouter request failed: ${status} ${statusText} - ${text}`)
HttpErr(resp) ==
  [kind |-> "http", model |-> "none", status |-> resp.status, abortName |-> FALSE,
   saysAborted |-> resp.saysAborted, wrapped |-> FALSE]

\* new Error(`OpenRouter model "${model}" does not support image input. ...`)
ImageErr(m, resp) ==
  [kind |-> "image", model |-> m, status |-> resp.status, abortName |-> FALSE,
   saysAborted |-> resp.saysAborted, wrapped |-> FALSE]

\* new Error("OpenRouter response had no readable body")
NoBodyErr ==
  [kind |-> "nobody", model |-> "none", status |-> 0, abortName |-> FALSE,
   saysAborted |-> FALSE, wrapped |-> FALSE]

\* sleepWithAbort's onAbort: reject(new Error("aborted"))
SleepAbortErr ==
  [kind |-> "sleep_aborted", model |-> "none", status |-> 0, abortName |-> FALSE,
   saysAborted |-> TRUE, wrapped |-> FALSE]

\* new Error("OpenRouter: all models failed or were exhausted")
ExhaustedErr ==
  [kind |-> "exhausted", model |-> "none", status |-> 0, abortName |-> FALSE,
   saysAborted |-> FALSE, wrapped |-> FALSE]

\* new Error(`OpenRouter request failed for model "${model}": ${err.message}`)
Wrapped(err, m) == [err EXCEPT !.wrapped = TRUE, !.model = m]

\* Errors a request or a stream read fails with while the signal is not
\* aborted.
TransportErrors == {NetworkErr(x) : x \in BOOLEAN}

\* const isAbort = (err instanceof Error && (err.name === "AbortError" ||
\*   err.message?.toLowerCase().includes("aborted"))) || signal?.aborted === true
isAbort(err) == err.abortName \/ err.saysAborted \/ signalAborted

\* One onModelSelected(model, attempt + 1, status) of the current attempt.
Selected(st) == [model |-> ModelAt(attempt), attempt |-> attempt + 1, status |-> st]

\* One entry of attemptLog for the current attempt.
Logged(what, st, m, x) ==
  [attempt |-> attempt, what |-> what, status |-> st, imageMsg |-> m,
   saysAborted |-> x]

\* The top of the loop body for attempt a: onModelSelected, then fetch.
BeginAttempt(a) ==
  /\ attempt' = a
  /\ modelSelected' =
       Append(modelSelected,
              [model |-> ModelAt(a), attempt |-> a + 1, status |-> Undefined])
  /\ fetches' = Append(fetches, ModelAt(a))
  /\ cpc' = "fetch"

\* The catch block, entered with err after the callbacks in sel were raised.
Caught(err, sel) ==
  IF isAbort(err)
    THEN /\ cpc' = "rejected"
         /\ clientError' = err
         /\ modelSelected' = sel
         /\ UNCHANGED <<sleeps, sleepArmed>>
    ELSE IF isLast(attempt)
      THEN /\ cpc' = "rejected"
           /\ clientError' = Wrapped(err, ModelAt(attempt))
           /\ modelSelected' = Append(sel, Selected(Undefined))
           /\ UNCHANGED <<sleeps, sleepArmed>>
      ELSE /\ cpc' = "sleep_catch"
           /\ sleeps' = Append(sleeps, attempt)
           /\ sleepArmed' = ~signalAborted
           /\ modelSelected' = Append(sel, Selected(Undefined))
           /\ UNCHANGED clientError

\* streamToolCalls is called: the loop starts, or has no iteration at all.
ClientStart ==
  /\ cpc = "idle"
  /\ IF 0 < Limit
       THEN /\ BeginAttempt(0)
            /\ UNCHANGED clientError
       ELSE /\ cpc' = "rejected"
            /\ clientError' = ExhaustedErr
            /\ UNCHANGED <<attempt, modelSelected, fetches>>
  /\ UNCHANGED <<models, maxAttempts, hasImage, signalAborted, response,
                 sleepArmed, sleeps, attemptLog, notClientVars>>

\* The caller aborts the signal.  A pending sleep whose listener is
\* registered rejects at once with Error("aborted").
Abort ==
  /\ cpc \in {"idle", "fetch", "text", "read", "sleep_try", "sleep_catch"}
  /\ ~signalAborted
  /\ signalAborted' = TRUE
  /\ IF cpc \in {"sleep_try", "sleep_catch"} /\ sleepArmed
       THEN /\ cpc' = "rejected"
            /\ clientError' = SleepAbortErr
       ELSE UNCHANGED <<cpc, clientError>>
  /\ UNCHANGED <<models, maxAttempts, hasImage, attempt, response, sleepArmed,
                 fetches, sleeps, attemptLog, modelSelected, notClientVars>>

\* fetch resolves with a response.  A 2xx response is announced and its body
\* reader taken; any other response has its body text awaited.
FetchResolve(resp) ==
  /\ cpc = "fetch"
  /\ ~signalAborted
  /\ response' = resp
  /\ attemptLog' =
       Append(attemptLog,
              Logged("response", resp.status, resp.imageMsg, resp.saysAborted))
  /\ IF resp.status \in 200..299
       THEN IF resp.body
              THEN /\ cpc' = "read"
                   /\ modelSelected' = Append(modelSelected, Selected(resp.status))
                   /\ UNCHANGED <<clientError, sleeps, sleepArmed>>
              ELSE Caught(NoBodyErr, Append(modelSelected, Selected(resp.status)))
       ELSE /\ cpc' = "text"
            /\ UNCHANGED <<modelSelected, clientError, sleeps, sleepArmed>>
  /\ UNCHANGED <<models, maxAttempts, hasImage, signalAborted, attempt,
                 fetches, notClientVars>>

\* fetch rejects: with AbortError on an aborted signal, else with a
\* transport error.
FetchReject(err) ==
  /\ cpc = "fetch"
  /\ err \in (IF signalAborted THEN {AbortErr} ELSE TransportErrors)
  /\ attemptLog' =
       Append(attemptLog, Logged("fetch_error", 0, FALSE, err.saysAborted))
  /\ Caught(err, modelSelected)
  /\ UNCHANGED <<models, maxAttempts, hasImage, signalAborted, attempt,
                 response, fetches, notClientVars>>

\* `await response.text()` resolves for a non-2xx response.  It can resolve
\* on an aborted signal when the body had arrived before the abort.
TextResolve ==
  /\ cpc = "text"
  /\ IF ImageUnsupported(response)
       THEN Caught(ImageErr(ModelAt(attempt), response), modelSelected)
       ELSE IF Retryable(response)
         THEN IF isLast(attempt)
                THEN Caught(HttpErr(response),
                            Append(modelSelected, Selected(response.status)))
                ELSE /\ cpc' = "sleep_try"
                     /\ sleeps' = Append(sleeps, attempt)
                     /\ sleepArmed' = ~signalAborted
                     /\ modelSelected' =
                          Append(modelSelected, Selected(response.status))
                     /\ UNCHANGED clientError
         ELSE Caught(HttpErr(response), modelSelected)
  /\ UNCHANGED <<models, maxAttempts, hasImage, signalAborted, attempt,
                 response, fetches, attemptLog, notClientVars>>

\* `await response.text()` rejects.
TextReject(err) ==
  /\ cpc = "text"
  /\ err \in (IF signalAborted THEN {AbortErr} ELSE TransportErrors)
  /\ attemptLog' =
       Append(attemptLog, Logged("text_error", 0, FALSE, err.saysAborted))
  /\ Caught(err, modelSelected)
  /\ UNCHANGED <<models, maxAttempts, hasImage, signalAborted, attempt,
                 response, fetches, notClientVars>>

\* reader.read() reports done: `return` ("stream finished normally").
ReadDone ==
  /\ cpc = "read"
  /\ ~signalAborted
  /\ cpc' = "resolved"
  /\ UNCHANGED <<models, maxAttempts, hasImage, signalAborted, attempt,
                 response, sleepArmed, fetches, sleeps, attemptLog,
                 modelSelected, clientError, notClientVars>>

\* reader.read() rejects.
ReadReject(err) ==
  /\ cpc = "read"
  /\ err \in (IF signalAborted THEN {AbortErr} ELSE TransportErrors)
  /\ attemptLog' =
       Append(attemptLog, Logged("read_error", 0, FALSE, err.saysAborted))
  /\ Caught(err, modelSelected)
  /\ UNCHANGED <<models, maxAttempts, hasImage, signalAborted, attempt,
                 response, fetches, notClientVars>>

\* The timer of sleepWithAbort fires: `continue` with the next model.
SleepDone ==
  /\ cpc \in {"sleep_try", "sleep_catch"}
  /\ BeginAttempt(attempt + 1)
  /\ UNCHANGED <<models, maxAttempts, hasImage, signalAborted, response,
                 sleepArmed, sleeps, attemptLog, clientError, notClientVars>>

ClientInit ==
  /\ \E n \in 1..MaxModels : models = ModelList(n)
  /\ maxAttempts \in 1..(MaxModels + 1)
  /\ hasImage \in BOOLEAN
  /\ signalAborted \in BOOLEAN
  /\ cpc = "idle"
  /\ attempt = 0
  /\ response = NoResponse
  /\ sleepArmed = FALSE
  /\ fetches = <<>>
  /\ sleeps = <<>>
  /\ attemptLog = <<>>
  /\ modelSelected = <<>>
  /\ clientError = NoError
  /\ segments = <<>>
  /\ toolsEmpty = FALSE
  /\ RunIdle
  /\ RuleIdle
  /\ StreamIdle
  /\ OrchIdle
  /\ MoreIdle

ClientNext ==
  \/ ClientStart
  \/ Abort
  \/ \E resp \in Responses : FetchResolve(resp)
  \/ \E err \in TransportErrors \cup {AbortErr} : FetchReject(err)
  \/ TextResolve
  \/ \E err \in TransportErrors \cup {AbortErr} : TextReject(err)
  \/ ReadDone
  \/ \E err \in TransportErrors \cup {AbortErr} : ReadReject(err)
  \/ SleepDone

SpecClient == ClientInit /\ [][ClientNext]_vars

\* ------------------------------------------------- claims on the client
\* e records a response with a 429 or >= 500 status.
RetryableEntry(e) ==
  e.what = "response" /\ (e.status = 429 \/ e.status >= 500)

\* The body text of the response recorded in e was read (response.text()
\* did not reject in that attempt).
BodyRead(e) ==
  /\ cpc # "text" \/ attempt # e.attempt
  /\ \A j \in 1..Len(attemptLog) :
       ~(attemptLog[j].what = "text_error" /\ attemptLog[j].attempt = e.attempt)

\* The call neither slept after attempt a nor requested a model after it.
FailedAt(a) ==
  /\ cpc = "rejected"
  /\ attempt = a
  /\ Len(fetches) = a + 1
  /\ \A j \in 1..Len(sleeps) : sleeps[j] # a

\* C11: if the first k attempts each get a 429 or >= 500 response and attempt
\* k+1 gets a 2xx, streamToolCalls uses the j-th model on the j-th attempt,
\* performs exactly k backoff sleeps (one after each failed attempt) and
\* resolves with the (k+1)-th model.
C11_FallbackAfterRetryable ==
  (cpc = "resolved"
     /\ \A j \in 1..(Len(attemptLog) - 1) : RetryableEntry(attemptLog[j]))
  => LET k == Len(attemptLog) - 1 IN
       /\ attemptLog[k + 1].what = "response"
       /\ attemptLog[k + 1].status \in 200..299
       /\ Len(fetches) = k + 1
       /\ \A j \in 1..(k + 1) : fetches[j] = models[j]
       /\ sleeps = [j \in 1..k |-> j - 1]
       /\ modelSelected[Len(modelSelected)] =
            [model |-> models[k + 1], attempt |-> k + 1,
             status |-> attemptLog[k + 1].status]

\* C11 witness: with the list [A, B], a 429 from A and a 2xx from B, the call
\* resolved after one sleep.
C11_Witness ==
  /\ cpc = "resolved"
  /\ models = <<"A", "B">>
  /\ Len(attemptLog) = 2
  /\ attemptLog[1].what = "response" /\ attemptLog[1].status = 429
  /\ attemptLog[2].what = "response" /\ attemptLog[2].status = 200
  /\ fetches = <<"A", "B">>
  /\ Len(sleeps) = 1

\* C12: when a response has status 404, the messages contain an image and the
\* error body says the model lacks image-input support, streamToolCalls fails
\* at once with an error naming the model: no backoff sleep and no further
\* candidate model, even when fallback models remain.
C12_ImageUnsupportedFatal ==
  \A j \in 1..Len(attemptLog) :
    LET e == attemptLog[j] IN
      (e.what = "response" /\ e.status = 404 /\ hasImage /\ e.imageMsg
         /\ BodyRead(e))
      => /\ FailedAt(e.attempt)
         /\ clientError.kind = "image"
         /\ clientError.model = models[e.attempt + 1]

\* C13: a non-2xx response whose status is neither 429 nor >= 500, and which
\* is not the image-unsupported 404, makes streamToolCalls fail at once: no
\* backoff sleep and no request to a further candidate model.
C13_OtherStatusFatal ==
  \A j \in 1..Len(attemptLog) :
    LET e == attemptLog[j] IN
      (e.what = "response" /\ e.status \notin 200..299 /\ ~RetryableEntry(e)
         /\ ~(e.status = 404 /\ hasImage /\ e.imageMsg) /\ BodyRead(e))
      => /\ FailedAt(e.attempt)
         /\ clientError.kind = "http"

\* The number of attempts a call may make.
Permitted == IF maxAttempts <= Len(models) THEN maxAttempts ELSE Len(models)

\* C14: streamToolCalls fails because of a retryable status only at the last
\* permitted attempt, number min(maxAttempts, number of models): there it
\* rejects with the HTTP error without a further sleep or request; a call
\* never issues more than that many requests nor tries a model twice.
C14_RetryableFatalOnlyWhenExhausted ==
  /\ Len(fetches) <= Permitted
  /\ \A j \in 1..Len(fetches) : fetches[j] = models[j]
  /\ \A j \in 1..Len(attemptLog) :
       (RetryableEntry(attemptLog[j]) /\ attemptLog[j].attempt + 1 = Permitted
          /\ BodyRead(attemptLog[j]))
       => /\ FailedAt(Permitted - 1)
          /\ clientError.kind = "http"
          /\ clientError.status = attemptLog[j].status
  /\ (cpc = "rejected" /\ clientError.kind = "http"
        /\ (clientError.status = 429 \/ clientError.status >= 500))
     => attempt + 1 = Permitted

\* C14 witness: with two or more permitted attempts, the call was rejected
\* with the 429 of the last one after using every permitted model.
C14_Witness ==
  /\ cpc = "rejected"
  /\ Permitted >= 2
  /\ clientError.kind = "http"
  /\ clientError.status = 429
  /\ Len(fetches) = Permitted
  /\ Len(sleeps) = Permitted - 1

\* C15: if the cancellation signal is aborted at any point of streamToolCalls
\* the call rejects at once: it is never in a backoff sleep while the signal
\* is aborted.
C15_AbortEndsSleep ==
  signalAborted => cpc \notin {"sleep_try", "sleep_catch"}

\* C16: a transport error that is not a cancellation (the request rejects or
\* reading the response stream fails) is handled like a 429/5xx: one backoff
\* sleep and the next model if a permitted attempt remains, else failure.
C16_TransportErrorRetried ==
  (attemptLog # <<>> /\ ~signalAborted
     /\ attemptLog[Len(attemptLog)].what \in {"fetch_error", "read_error"}
     /\ attemptLog[Len(attemptLog)].attempt = attempt)
  => IF attempt + 1 < Limit
       THEN /\ cpc = "sleep_catch"
            /\ sleeps # <<>>
            /\ sleeps[Len(sleeps)] = attempt
       ELSE cpc = "rejected"

\* ================================= streamToolCalls: reading a 2xx body
\* The read loop of streamToolCalls (lines 173-192): chunks of the body are
\* appended to buffer, the complete lines are processed and the trailing
\* partial line is kept for the next read.  A character is a one-character
\* string; "d" ":" stand for the prefix "data:", "D" for the text "[DONE]",
\* "x" and "y" for two JSON event payloads.

Newline == "\n"

\* The texts a line of the body is drawn from.
LineTexts ==
  { <<>>,
    <<"d", ":", "x">>,
    <<"d", ":", "y">>,
    <<" ", "d", ":", " ", "x", " ">>,
    <<"d", ":", " ">>,
    <<"d", ":", "D">>,
    <<"d", ":", "j">>,
    <<"x">> }

\* The body made of the lines ls, each ended by a newline except that the
\* last one is left unterminated when terminated is FALSE.
RECURSIVE Body(_, _)
Body(ls, terminated) ==
  IF ls = <<>> THEN <<>>
  ELSE IF Len(ls) = 1
    THEN IF terminated THEN Head(ls) \o <<Newline>> ELSE Head(ls)
    ELSE Head(ls) \o <<Newline>> \o Body(Tail(ls), terminated)

Bodies ==
  { Body(ls, t) : ls \in UNION { [1..k -> LineTexts] : k \in 0..MaxLines },
                  t \in BOOLEAN }

\* text.split("\n"): the pieces between newlines, at least one piece.
RECURSIVE Split(_)
Split(text) ==
  IF text = <<>> THEN << <<>> >>
  ELSE LET rest == Split(Tail(text)) IN
         IF Head(text) = Newline
           THEN << <<>> >> \o rest
           ELSE << <<Head(text)>> \o rest[1] >> \o Tail(rest)

\* String.prototype.trim, for the whitespace character " ".
RECURSIVE TrimStart(_)
TrimStart(text) ==
  IF text # <<>> /\ Head(text) = " " THEN TrimStart(Tail(text)) ELSE text

RECURSIVE TrimEnd(_)
TrimEnd(text) ==
  IF text # <<>> /\ text[Len(text)] = " "
    THEN TrimEnd(SubSeq(text, 1, Len(text) - 1))
    ELSE text

Trim(text) == TrimEnd(TrimStart(text))

\* trimmed.startsWith("data:")
StartsWithData(text) == Len(text) >= 2 /\ text[1] = "d" /\ text[2] = ":"

\* try { parsed = JSON.parse(payload) } catch { continue }: the payload "j"
\* is not JSON.
ParsesAsJson(payload) == payload # <<"j">>

\* Mutant: a payload that is not JSON ends the processing of the lines.
RECURSIVE Payloads_StopOnBadJson(_)
Payloads_StopOnBadJson(ls) ==
  IF ls = <<>> THEN <<>>
  ELSE LET trimmed == Trim(Head(ls))
           payload == Trim(SubSeq(trimmed, 3, Len(trimmed)))
       IN IF ~StartsWithData(trimmed) \/ payload = <<>> \/ payload = <<"D">>
            THEN Payloads_StopOnBadJson(Tail(ls))
            ELSE IF ~ParsesAsJson(payload) THEN <<>>
            ELSE <<payload>> \o Payloads_StopOnBadJson(Tail(ls))

\* The payloads of the lines ls that are parsed and handed to the callbacks,
\* in order: a line without the prefix, with an empty payload, with "[DONE]"
\* or with a payload that is not JSON is skipped.
RECURSIVE Payloads(_)
Payloads(ls) ==
  IF ls = <<>> THEN <<>>
  ELSE LET trimmed == Trim(Head(ls))
           payload == Trim(SubSeq(trimmed, 3, Len(trimmed)))
       IN IF ~StartsWithData(trimmed) \/ payload = <<>> \/ payload = <<"D">>
               \/ ~ParsesAsJson(payload)
            THEN Payloads(Tail(ls))
            ELSE <<payload>> \o Payloads(Tail(ls))

\* Mutant: the trailing partial line is dropped instead of kept.
Carry_Dropped(lines) == <<>>

\* buffer = lines.pop() ?? ""
Carry(lines) == lines[Len(lines)]

\* const lines = buffer.split("\n") after lines.pop()
Complete(lines) == SubSeq(lines, 1, Len(lines) - 1)

\* reader.read() resolves with a chunk of n characters.
Read(n) ==
  /\ lpc = "reading"
  /\ Len(readSizes) < MaxReads
  /\ readPos + n <= Len(content)
  /\ LET lines == Split(buffer \o SubSeq(content, readPos + 1, readPos + n))
     IN /\ buffer' = Carry(lines)
        /\ linePayloads' = linePayloads \o Payloads(Complete(lines))
  /\ readPos' = readPos + n
  /\ readSizes' = Append(readSizes, n)
  /\ UNCHANGED <<content, lpc, callVars, runVars, ruleVars, clientVars, orchVars, moreVars>>

\* reader.read() resolves with done: the loop is left, buffer is not looked at.
ReadEnd ==
  /\ lpc = "reading"
  /\ readPos = Len(content)
  /\ lpc' = "done"
  /\ UNCHANGED <<content, readPos, readSizes, buffer, linePayloads, callVars,
                 runVars, ruleVars, clientVars, orchVars, moreVars>>

LinesInit ==
  /\ content \in Bodies
  /\ readPos = 0
  /\ readSizes = <<>>
  /\ buffer = <<>>
  /\ linePayloads = <<>>
  /\ lpc = "reading"
  /\ provided = <<>>
  /\ partialToolCalls = <<>>
  /\ functionCalls = <<>>
  /\ argumentsDone = <<>>
  /\ finishReasons = <<>>
  /\ textDeltas = <<>>
  /\ kpc = "idle"
  /\ segments = <<>>
  /\ toolsEmpty = FALSE
  /\ RunIdle
  /\ RuleIdle
  /\ ClientIdle
  /\ OrchIdle
  /\ MoreIdle

LinesNext ==
  \/ \E n \in 1..MaxChunk : Read(n)
  \/ ReadEnd

SpecLines == LinesInit /\ [][LinesNext]_vars

\* ------------------------------------------------ claims on line reading
\* The characters the reads so far delivered.
Delivered == SubSeq(content, 1, readPos)

\* C17: the event payloads processed depend only on the content of the body,
\* not on how it is split across reads: after every read they are the event
\* payloads of the complete lines delivered so far, the buffer is the
\* unfinished last line, and at the end of the stream they are the event
\* payloads of the complete lines of the body.
C17_SplitIndependent ==
  /\ linePayloads = Payloads(Complete(Split(Delivered)))
  /\ buffer = Carry(Split(Delivered))
  /\ lpc = "done" => linePayloads = Payloads(Complete(Split(content)))

\* C17 witness: a body of two event lines was read to its end in three reads
\* that cut the first line inside its prefix and the second inside its
\* payload part, and both events were processed once, in order.
C17_Witness ==
  /\ lpc = "done"
  /\ content = <<"d", ":", "x", Newline, "d", ":", "y", Newline>>
  /\ readSizes = <<1, 5, 2>>
  /\ linePayloads = << <<"x">>, <<"y">> >>

\* A line that is not an event line, is the termination marker, or whose
\* payload is not valid JSON.
SkippedLine(line) ==
  \/ Len(Trim(line)) < 2
  \/ Trim(line)[1] # "d"
  \/ Trim(line)[2] # ":"
  \/ Trim(SubSeq(Trim(line), 3, Len(Trim(line)))) \in {<<>>, <<"D">>, <<"j">>}

\* The payload of each line of ls, in order.
EventPayloads(ls) ==
  [k \in 1..Len(ls) |-> Trim(SubSeq(Trim(ls[k]), 3, Len(Trim(ls[k]))))]

\* C32: a line that is not an event line, is the termination marker or has a
\* payload that is not JSON raises no callback and does not disturb the
\* stream: the events handed to the callbacks are always those of the
\* complete lines delivered so far with the skipped lines left out, so every
\* later event line is processed as if the skipped line had not been sent.
C32_SkippedLinesIgnored ==
  LET delivered == Complete(Split(Delivered))
      kept == SelectSeq(delivered, LAMBDA line : ~SkippedLine(line))
  IN /\ linePayloads = EventPayloads(kept)
     /\ \A k \in 1..Len(linePayloads) :
          linePayloads[k] \notin {<<>>, <<"D">>, <<"j">>}

\* C32 witness: a line whose payload is not JSON came first and the event
\* line after it was processed.
C32_Witness ==
  /\ lpc = "done"
  /\ content = <<"d", ":", "j", Newline, "d", ":", "y", Newline>>
  /\ linePayloads = << <<"y">> >>

\* C36: every event line sent before the stream closes is processed, also a
\* last line that no newline ends.
C36_EveryLineProcessed ==
  lpc = "done" => linePayloads = Payloads(Split(content))

\* ============================ streamToolCalls: merging tool-call chunks
\* The processing of the parsed events of one 2xx response (lines 201-268):
\* onTextDelta, the merge of tool-call chunks by positional index with the
\* recovered-name branch, onFinish and onArgumentsDone.  An argument string is
\* a sequence of fragments; "{n" "}" together are a JSON object with a name
\* field, "{r" "}" a JSON object without one.

\* An absent name (function.name or toolCall.name not a string).
NoName == "undefined"

\* An absent finish_reason.
NoFinish == "undefined"

\* One element of delta.tool_calls.
Chunk(idx, fnName, topName, args) ==
  [index |-> idx, fnName |-> fnName, topName |-> topName, args |-> args]

\* One parsed event.
Event(text, toolCalls, finish) ==
  [text |-> text, toolCalls |-> toolCalls, finish |-> finish]

\* A chunk that carries only an argument fragment for index idx.
Fragment(idx, frag) == Chunk(idx, NoName, NoName, <<frag>>)

\* The tool-call chunks a provider sends.
Chunks ==
  { Chunk(0, "quit_video", NoName, <<>>),
    Chunk(0, "quit_video", NoName, <<"{r">>),
    Chunk(1, "keep_playing", NoName, <<>>),
    Chunk(0, NoName, "keep_playing", <<>>),
    Fragment(0, "{r"),
    Fragment(0, "{n"),
    Fragment(0, "}"),
    Fragment(1, "}") }

\* The events a provider sends.
Events ==
  { Event(TRUE, <<>>, NoFinish),
    Event(FALSE, <<>>, "stop"),
    Event(FALSE, <<>>, "tool_calls"),
    Event(FALSE, <<Fragment(0, "{r"), Fragment(0, "}")>>, "tool_calls") }
  \cup { Event(FALSE, <<c>>, f) : c \in Chunks, f \in {NoFinish, "tool_calls"} }

\* partialToolCalls[idx] ?? { args: "", emitted: false }
NoPartial == [name |-> NoName, args |-> <<>>, emitted |-> FALSE]

\* The name field of tryParseJson(args), or its tool field, if args is a JSON
\* object that has one.
ParsedName(args) ==
  IF args = <<"{n", "}">> THEN "quit_video" ELSE NoName

\* chunkName: function.name, else toolCall.name
ChunkName(c) == IF c.fnName # NoName THEN c.fnName ELSE c.topName

\* const merged = { name: chunkName ?? prev.name, args: prev.args + chunkArgs,
\*                  emitted: prev.emitted }
Merged(prev, c) ==
  [name |-> IF ChunkName(c) # NoName THEN ChunkName(c) ELSE prev.name,
   args |-> prev.args \o c.args,
   emitted |-> prev.emitted]

\* let recoveredName = merged.name, else the name found in the merged args
RecoveredName(merged) ==
  IF merged.name # NoName THEN merged.name ELSE ParsedName(merged.args)

\* if (!toolCall.function?.name && !merged.emitted) ... if (recoveredName)
Recovers(c, merged) ==
  /\ c.fnName = NoName
  /\ ~merged.emitted
  /\ RecoveredName(merged) # NoName

\* The body of `for (const toolCall of toolCalls)` for the chunks cs, from the
\* table partials and the calls raised so far: the table and the calls after.
RECURSIVE MergeChunks(_, _, _)
MergeChunks(cs, partials, calls) ==
  IF cs = <<>> THEN [partials |-> partials, calls |-> calls]
  ELSE LET c == Head(cs)
           merged == Merged(partials[c.index], c)
       IN IF Recovers(c, merged)
            THEN MergeChunks(
                   Tail(cs),
                   [partials EXCEPT ![c.index] =
                      [merged EXCEPT !.emitted = TRUE,
                                     !.name = RecoveredName(merged)]],
                   Append(calls, [name |-> RecoveredName(merged),
                                  arguments |-> merged.args]))
            ELSE MergeChunks(
                   Tail(cs),
                   [partials EXCEPT ![c.index] = merged],
                   IF c.fnName = NoName
                     THEN calls
                     ELSE Append(calls, [name |-> c.fnName,
                                         arguments |-> c.args]))

\* toolCalls.map((t) => t.function?.arguments ?? "").join("")
RECURSIVE JoinArgs(_)
JoinArgs(cs) ==
  IF cs = <<>> THEN <<>> ELSE Head(cs).args \o JoinArgs(Tail(cs))

\* One parsed event e is processed (the rest of the loop body after
\* JSON.parse).
OnEvent(e) ==
  /\ kpc = "streaming"
  /\ Len(provided) < MaxEvents
  /\ provided' = Append(provided, e)
  /\ textDeltas' = IF e.text THEN Append(textDeltas, Len(provided) + 1)
                             ELSE textDeltas
  /\ LET out == MergeChunks(e.toolCalls, partialToolCalls, functionCalls)
     IN /\ partialToolCalls' = out.partials
        /\ functionCalls' = out.calls
  /\ finishReasons' = IF e.finish # NoFinish
                        THEN Append(finishReasons, e.finish)
                        ELSE finishReasons
  /\ argumentsDone' = IF e.finish = "tool_calls"
                        THEN Append(argumentsDone, JoinArgs(e.toolCalls))
                        ELSE argumentsDone
  /\ UNCHANGED <<kpc, lineVars, runVars, ruleVars, clientVars, orchVars, moreVars>>

\* The stream ends: the read loop is left and streamToolCalls returns.
StreamEnd ==
  /\ kpc = "streaming"
  /\ kpc' = "done"
  /\ UNCHANGED <<provided, partialToolCalls, functionCalls, argumentsDone,
                 finishReasons, textDeltas, lineVars, runVars, ruleVars,
                 clientVars, orchVars, moreVars>>

CallsInit ==
  /\ provided = <<>>
  /\ partialToolCalls = [idx \in 0..1 |-> NoPartial]
  /\ functionCalls = <<>>
  /\ argumentsDone = <<>>
  /\ finishReasons = <<>>
  /\ textDeltas = <<>>
  /\ kpc = "streaming"
  /\ content = <<>>
  /\ readPos = 0
  /\ readSizes = <<>>
  /\ buffer = <<>>
  /\ linePayloads = <<>>
  /\ lpc = "idle"
  /\ segments = <<>>
  /\ toolsEmpty = FALSE
  /\ RunIdle
  /\ RuleIdle
  /\ ClientIdle
  /\ OrchIdle
  /\ MoreIdle

CallsNext ==
  \/ \E e \in Events : OnEvent(e)
  \/ StreamEnd

SpecCalls == CallsInit /\ [][CallsNext]_vars

\* ------------------------------------------------ claims on tool calls
\* The argument fragments of the chunks cs for index idx, concatenated.
RECURSIVE ChunkArgs(_, _)
ChunkArgs(cs, idx) ==
  IF cs = <<>> THEN <<>>
  ELSE (IF Head(cs).index = idx THEN Head(cs).args ELSE <<>>)
       \o ChunkArgs(Tail(cs), idx)

\* The argument fragments the events es carry for index idx, concatenated.
RECURSIVE AllArgs(_, _)
AllArgs(es, idx) ==
  IF es = <<>> THEN <<>>
  ELSE ChunkArgs(Head(es).toolCalls, idx) \o AllArgs(Tail(es), idx)

\* The stream so far is one logical call of quit_video at index 0: an event
\* with the name and no arguments, then only events with one argument
\* fragment or with only a finish reason.
NameFirstSplit ==
  /\ provided # <<>>
  /\ provided[1] =
       Event(FALSE, <<Chunk(0, "quit_video", NoName, <<>>)>>, NoFinish)
  /\ \A k \in 2..Len(provided) :
       /\ ~provided[k].text
       /\ \/ provided[k].toolCalls = <<>>
          \/ \E frag \in {"{r", "{n", "}"} :
               provided[k].toolCalls = <<Fragment(0, frag)>>

\* C18: when one logical tool call arrives as its name followed by argument
\* fragments for the same index, the client raises exactly one onFunctionCall
\* for it, and that call carries the concatenation of all the fragments.
C18_OneCallFullArguments ==
  (kpc = "done" /\ NameFirstSplit)
  => functionCalls =
       << [name |-> "quit_video", arguments |-> AllArgs(provided, 0)] >>

\* The table of partial calls and the calls raised after the events es.
RECURSIVE AfterEvents(_)
AfterEvents(es) ==
  IF es = <<>>
    THEN [partials |-> [idx \in 0..1 |-> NoPartial], calls |-> <<>>]
    ELSE LET before == AfterEvents(SubSeq(es, 1, Len(es) - 1))
         IN MergeChunks(es[Len(es)].toolCalls, before.partials, before.calls)

\* C31: when the name of a tool call becomes known only after argument
\* fragments for its index have arrived, the onFunctionCall raised at that
\* moment carries all the arguments accumulated so far for that index.
C31_LateNameFullArguments ==
  (/\ provided # <<>>
   /\ Len(provided[Len(provided)].toolCalls) = 1)
  => LET c == provided[Len(provided)].toolCalls[1]
         before == AfterEvents(SubSeq(provided, 1, Len(provided) - 1))
         prev == before.partials[c.index]
     IN (/\ prev.name = NoName
         /\ ~prev.emitted
         /\ prev.args # <<>>
         /\ RecoveredName(Merged(prev, c)) # NoName)
        => /\ Len(functionCalls) = Len(before.calls) + 1
           /\ functionCalls[Len(functionCalls)] =
                [name |-> RecoveredName(Merged(prev, c)),
                 arguments |-> AllArgs(provided, c.index)]

\* C19: when an event carries the finish reason tool_calls, onArgumentsDone is
\* raised with the argument string concatenated over all fragments received
\* for the call during the stream.
C19_ArgumentsDoneFull ==
  (/\ provided # <<>>
   /\ provided[Len(provided)].finish = "tool_calls"
   /\ \A k \in 1..Len(provided) :
        \A n \in 1..Len(provided[k].toolCalls) :
          provided[k].toolCalls[n].index = 0)
  => /\ argumentsDone # <<>>
     /\ argumentsDone[Len(argumentsDone)] = AllArgs(provided, 0)

\* ============================================ buildSimulation (the join)
\* The orchestrator: personas.map(runAgent) starts one run per persona, the
\* Promise.all over the runs is awaited and summarizeSimulation is applied to
\* its results.  A run is seen from outside: a promise that is pending, then
\* resolves with an AgentRunResult or rejects.  Persona p is agent-p.

Personas == 1..agentCount

\* A run cannot settle before the synchronous personas.map is over unless it
\* returns before its first await (segments.length === 0).
CanSettle(p) ==
  /\ p \in Personas
  /\ runStatus[p] = "pending"
  /\ opc # "mapping" \/ segments = <<>>

\* The stopSegmentIndex values a run over segments can return.
StopIndexes == {Undefined} \cup {segments[k].index : k \in 1..Len(segments)}

\* Mutant: the join is fulfilled as soon as one run is (Promise.any).
Fulfilled_Any == \E p \in Personas : runStatus[p] = "resolved"

\* Mutant: the join waits for every run to settle and takes what resolved
\* (Promise.allSettled).
Fulfilled_Settled == \A p \in Personas : runStatus[p] # "pending"

\* Promise.all is fulfilled when every promise is.
Fulfilled == \A p \in Personas : runStatus[p] = "resolved"

\* getVideoDurationSecondsFromSegments
getVideoDurationSecondsFromSegments(segs) ==
  IF Len(segs) = 0 THEN 0 ELSE segs[Len(segs)].end

\* Math.max(0, Math.min(stopSegmentIndex, segments.length - 1))
Clamped(idx, segs) ==
  LET low == IF idx < Len(segs) - 1 THEN idx ELSE Len(segs) - 1
  IN IF low > 0 THEN low ELSE 0

\* Mutant: the clamped index is used as a position counted from one.
getWatchSecondsForStopIndex_Previous(segs, idx) ==
  IF Len(segs) = 0 THEN 0
  ELSE IF idx = Undefined THEN getVideoDurationSecondsFromSegments(segs)
  ELSE segs[IF Clamped(idx, segs) > 0 THEN Clamped(idx, segs) ELSE 1].end

\* getWatchSecondsForStopIndex
getWatchSecondsForStopIndex(segs, idx) ==
  IF Len(segs) = 0 THEN 0
  ELSE IF idx = Undefined THEN getVideoDurationSecondsFromSegments(segs)
  ELSE segs[Clamped(idx, segs) + 1].end

\* perAgent.reduce((sum, row) => sum + row.watchSeconds, 0)
RECURSIVE TotalWatchSeconds(_)
TotalWatchSeconds(rows) ==
  IF rows = <<>> THEN 0
  ELSE Head(rows).watchSeconds + TotalWatchSeconds(Tail(rows))

\* The quotient total / count of two integers, kept as a fraction.
Quotient(total, count) == [num |-> total, den |-> count]

\* summarizeSimulation
summarizeSimulation(segs, results) ==
  LET perAgent ==
        [p \in 1..Len(results) |->
           [agentId |-> results[p].agentId,
            stopSegmentIndex |-> results[p].stopSegmentIndex,
            watchSeconds |->
              getWatchSecondsForStopIndex(segs, results[p].stopSegmentIndex)]]
  IN [videoDurationSeconds |-> getVideoDurationSecondsFromSegments(segs),
      averageWatchSeconds |->
        IF Len(perAgent) = 0 THEN Quotient(0, 1)
        ELSE Quotient(TotalWatchSeconds(perAgent), Len(perAgent)),
      perAgent |-> perAgent]

\* personas.map calls runAgent for the next persona.
StartAgent(p) ==
  /\ opc = "mapping"
  /\ p \in Personas
  /\ runStatus[p] = "unstarted"
  /\ \A q \in 1..(p - 1) : runStatus[q] # "unstarted"
  /\ runStatus' = [runStatus EXCEPT ![p] = "pending"]
  /\ opc' = IF p = agentCount THEN "awaiting" ELSE "mapping"
  /\ UNCHANGED <<agentCount, runResult, finishOrder, summaryRows, joinError,
                 cancelledAt, runVars, ruleVars, clientVars, streamVars, moreVars>>

\* The run of persona p returns a result that stops at idx (or nowhere).
AgentResolve(p, idx) ==
  /\ CanSettle(p)
  /\ idx \in StopIndexes
  /\ runStatus' = [runStatus EXCEPT ![p] = "resolved"]
  /\ runResult' = [runResult EXCEPT
                     ![p] = [agentId |-> p, stopSegmentIndex |-> idx]]
  /\ finishOrder' = Append(finishOrder, p)
  /\ UNCHANGED <<agentCount, opc, summaryRows, joinError, cancelledAt,
                 runVars, ruleVars, clientVars, streamVars, moreVars>>

\* The run of persona p rejects (it has segments: it got to a client call).
AgentReject(p) ==
  /\ CanSettle(p)
  /\ segments # <<>>
  /\ runStatus' = [runStatus EXCEPT ![p] = "rejected"]
  /\ finishOrder' = Append(finishOrder, p)
  /\ UNCHANGED <<agentCount, runResult, opc, summaryRows, joinError,
                 cancelledAt, runVars, ruleVars, clientVars, streamVars, moreVars>>

\* await Promise.all(...) resolves; summarizeSimulation(segments, results).
JoinResolve ==
  /\ opc = "awaiting"
  /\ Fulfilled
  /\ summaryRows' = summarizeSimulation(segments, runResult).perAgent
  /\ opc' = "summarized"
  /\ UNCHANGED <<agentCount, runStatus, runResult, finishOrder, joinError,
                 cancelledAt, runVars, ruleVars, clientVars, streamVars, moreVars>>

\* The persona whose run was the first to reject.
FirstRejected ==
  LET k == CHOOSE k \in 1..Len(finishOrder) :
             /\ runStatus[finishOrder[k]] = "rejected"
             /\ \A j \in 1..(k - 1) : runStatus[finishOrder[j]] # "rejected"
  IN finishOrder[k]

\* await Promise.all(...) rejects with the first rejection: the catch block
\* rethrows it and no summary is made.  The other runs go on.
JoinReject ==
  /\ opc = "awaiting"
  /\ \E p \in Personas : runStatus[p] = "rejected"
  /\ opc' = "failed"
  /\ joinError' = FirstRejected
  /\ UNCHANGED <<agentCount, runStatus, runResult, finishOrder, summaryRows,
                 cancelledAt, runVars, ruleVars, clientVars, streamVars, moreVars>>

\* The caller of the run goes away while it is under way (the WebSocket
\* closes): the close handler only logs; no signal reaches the runs.
CallerCancel ==
  /\ opc = "awaiting"
  /\ cancelledAt = Undefined
  /\ cancelledAt' = Len(finishOrder)
  /\ UNCHANGED <<agentCount, runStatus, runResult, finishOrder, opc,
                 summaryRows, joinError, runVars, ruleVars, clientVars,
                 streamVars, moreVars>>

OrchInit ==
  /\ agentCount \in 1..MaxAgents
  /\ runStatus = [p \in 1..agentCount |-> "unstarted"]
  /\ runResult = [p \in 1..agentCount |->
                    [agentId |-> p, stopSegmentIndex |-> Undefined]]
  /\ finishOrder = <<>>
  /\ opc = "mapping"
  /\ summaryRows = <<>>
  /\ joinError = 0
  /\ cancelledAt = Undefined
  /\ segments \in {segmentVideo(n) : n \in 0..MaxSegments}
  /\ toolsEmpty = FALSE
  /\ RunIdle
  /\ RuleIdle
  /\ ClientIdle
  /\ StreamIdle
  /\ MoreIdle

OrchNext ==
  \/ \E p \in 1..MaxAgents : StartAgent(p)
  \/ \E p \in 1..MaxAgents, idx \in {Undefined} \cup 0..MaxSegments :
       AgentResolve(p, idx)
  \/ \E p \in 1..MaxAgents : AgentReject(p)
  \/ JoinResolve
  \/ JoinReject
  \/ CallerCancel

SpecOrch == OrchInit /\ [][OrchNext]_vars

\* --------------------------------------------- claims on the orchestrator
\* C20: the orchestrator is a join barrier: every persona's run is started
\* before the join is awaited, the summary exists only once every run has
\* finished, and it has exactly one row per persona, in persona order, with
\* that persona's result, whatever the order in which the runs finished.
C20_JoinBarrier ==
  /\ opc # "mapping" => \A p \in Personas : runStatus[p] # "unstarted"
  /\ opc # "summarized" => summaryRows = <<>>
  /\ opc = "summarized"
     => /\ \A p \in Personas : runStatus[p] = "resolved"
        /\ Len(finishOrder) = agentCount
        /\ \A p \in Personas : \E k \in 1..agentCount : finishOrder[k] = p
        /\ Len(summaryRows) = agentCount
        /\ \A p \in Personas :
             /\ summaryRows[p].agentId = p
             /\ summaryRows[p].stopSegmentIndex = runResult[p].stopSegmentIndex

\* C20 witness: three agents finished in the order 3, 1, 2 with different
\* results and the summary was made.
C20_Witness ==
  /\ opc = "summarized"
  /\ agentCount = 3
  /\ finishOrder = <<3, 1, 2>>
  /\ summaryRows[1].stopSegmentIndex = 1
  /\ summaryRows[2].stopSegmentIndex = Undefined
  /\ summaryRows[3].stopSegmentIndex = 0

\* C21: if any agent's run fails, the whole batch fails with that error: the
\* join never yields a summary or results once a run has rejected, and when
\* it has failed its error is that of the run that rejected first, whatever
\* the other runs did.
C21_OneFailureFailsBatch ==
  /\ (\E p \in Personas : runStatus[p] = "rejected")
     => /\ opc # "summarized"
        /\ summaryRows = <<>>
  /\ opc = "failed"
     => /\ joinError \in Personas
        /\ runStatus[joinError] = "rejected"
        /\ joinError = FirstRejected
        /\ summaryRows = <<>>
  /\ opc # "failed" => joinError = 0

\* C21 witness: of three agents the second rejected after the first had
\* resolved with a result, and the batch failed while the third still ran.
C21_Witness ==
  /\ opc = "failed"
  /\ agentCount = 3
  /\ finishOrder = <<1, 2>>
  /\ runStatus = <<"resolved", "rejected", "pending">>
  /\ joinError = 2

\* C23: if the caller cancels the overall run, every agent's in-flight
\* request and backoff sleep is aborted promptly (no run stays pending) and
\* an agent that had not finished produces no result.
C23_CancelAbortsAgents ==
  cancelledAt # Undefined
  => /\ \A p \in Personas : runStatus[p] # "pending"
     /\ \A k \in (cancelledAt + 1)..Len(finishOrder) :
          runStatus[finishOrder[k]] # "resolved"

\* ================================================== summarizeSimulation
\* The pure aggregator alone, on segment lists as segmentVideo builds them
\* and on result lists whose stop indexes may also lie outside the list.

\* The segment lists of up to MaxSegments frames at one frame per 1 or 2
\* seconds, the last segment being cut by the duration of the video.
SegmentLists ==
  { Segments(c[1], c[2], c[3]) :
      c \in { d \in (0..MaxSegments) \X (1..2) \X (0..(2 * MaxSegments)) :
                /\ d[3] > (d[1] - 1) * d[2]
                /\ d[3] <= d[1] * d[2] } }

\* The result lists for up to MaxAgents agents.
ResultLists ==
  UNION { [1..k -> [agentId : {"agent"},
                    stopSegmentIndex : {Undefined} \cup 0..MaxSegments]] :
            k \in 0..MaxAgents }

SummaryInit ==
  /\ sumArgs \in [segments : SegmentLists, results : ResultLists]
  /\ sumResult = <<>>
  /\ segments = <<>>
  /\ toolsEmpty = FALSE
  /\ RunIdle
  /\ RuleIdle
  /\ ClientIdle
  /\ StreamIdle
  /\ OrchIdle
  /\ TurnIdle
  /\ AgentsIdle
  /\ RecorderIdle
  /\ UiIdle
  /\ CaptureIdle

\* One call summarizeSimulation(segments, results).
Summarize ==
  /\ sumResult = <<>>
  /\ sumResult' = <<summarizeSimulation(sumArgs.segments, sumArgs.results)>>
  /\ UNCHANGED <<sumArgs, notSummaryVars>>

SummaryNext == Summarize

SpecSummary == SummaryInit /\ [][SummaryNext]_vars

\* ---------------------------------------------- claims on the aggregator
\* The end time of the last segment of segs, 0 with no segments.
LastEnd(segs) == IF segs = <<>> THEN 0 ELSE segs[Len(segs)].end

\* The sum of the watchSeconds of the first n rows.
RECURSIVE WatchSum(_, _)
WatchSum(rows, n) ==
  IF n = 0 THEN 0 ELSE rows[n].watchSeconds + WatchSum(rows, n - 1)

\* C24: summarizeSimulation returns one row per result in input order with
\* watchSeconds the end time of the segment at stopSegmentIndex if that is
\* present, else the end time of the last segment; videoDurationSeconds is
\* the end time of the last segment (0 with no segments); averageWatchSeconds
\* is the mean of the rows' watchSeconds (0 with no agents); with no segments
\* every watchSeconds is 0.
C24_SummaryValues ==
  sumResult # <<>>
  => LET segs == sumArgs.segments
         results == sumArgs.results
         out == sumResult[1]
         rows == out.perAgent
     IN /\ Len(rows) = Len(results)
        /\ \A p \in 1..Len(results) :
             /\ rows[p].agentId = results[p].agentId
             /\ rows[p].stopSegmentIndex = results[p].stopSegmentIndex
             /\ segs = <<>> => rows[p].watchSeconds = 0
             /\ (segs # <<>> /\ results[p].stopSegmentIndex = Undefined)
                => rows[p].watchSeconds = LastEnd(segs)
             /\ \A k \in 1..Len(segs) :
                  segs[k].index = results[p].stopSegmentIndex
                  => rows[p].watchSeconds = segs[k].end
             /\ (\A k \in 1..Len(segs) :
                   segs[k].index # results[p].stopSegmentIndex)
                => rows[p].watchSeconds = LastEnd(segs)
        /\ out.videoDurationSeconds = LastEnd(segs)
        /\ IF rows = <<>>
             THEN out.averageWatchSeconds.num = 0
             ELSE /\ out.averageWatchSeconds.num = WatchSum(rows, Len(rows))
                  /\ out.averageWatchSeconds.den = Len(rows)

\* C24 witness: three segments ending at 2, 4 and 5 seconds; one agent
\* stopped at segment 1, one at segment 0 and one watched to the end.
C24_Witness ==
  /\ sumResult # <<>>
  /\ sumArgs.segments = Segments(3, 2, 5)
  /\ Len(sumArgs.results) = 3
  /\ sumArgs.results[1].stopSegmentIndex = 1
  /\ sumArgs.results[2].stopSegmentIndex = 0
  /\ sumArgs.results[3].stopSegmentIndex = Undefined
  /\ sumResult[1].perAgent[1].watchSeconds = 4
  /\ sumResult[1].perAgent[2].watchSeconds = 2
  /\ sumResult[1].perAgent[3].watchSeconds = 5
  /\ sumResult[1].averageWatchSeconds = [num |-> 11, den |-> 3]
  /\ sumResult[1].videoDurationSeconds = 5

\* ============================================ extractFunctionArguments
\* A text is a sequence of pieces: braces, fields, the tag <TOOLCALL>, code
\* fences, the whitespace " " and other words.

\* A missing key of an argument object (reads as undefined).
Absent == ""

\* The value of a field.
FieldValue(piece) ==
  CASE piece = "subconscious_thought:a" -> "a"
    [] piece = "subconscious_thought:b" -> "b"
    [] piece = "reason_for_quitting:r" -> "r"
    [] piece = "curiosity_level:7" -> "7"
    [] OTHER -> Absent

\* The object {}.
EmptyFields ==
  [subconscious_thought |-> Absent, curiosity_level |-> Absent,
   reason_for_quitting |-> Absent]

\* indexOf and lastIndexOf on a text, counted from 1; 0 when not found.
IndexOf(text, piece) ==
  IF \E k \in 1..Len(text) : text[k] = piece
    THEN CHOOSE k \in 1..Len(text) :
           /\ text[k] = piece
           /\ \A j \in 1..(k - 1) : text[j] # piece
    ELSE 0

LastIndexOf(text, piece) ==
  IF \E k \in 1..Len(text) : text[k] = piece
    THEN CHOOSE k \in 1..Len(text) :
           /\ text[k] = piece
           /\ \A j \in (k + 1)..Len(text) : text[j] # piece
    ELSE 0

\* The value of the last field of text among fields, Absent if none: a
\* duplicate key of a JSON object takes its last value.
LastField(text, fields) ==
  IF \E k \in 1..Len(text) : text[k] \in fields
    THEN FieldValue(text[CHOOSE k \in 1..Len(text) :
                           /\ text[k] \in fields
                           /\ \A j \in (k + 1)..Len(text) : text[j] \notin fields])
    ELSE Absent

\* The value of the first field of text among fields: String.prototype.match
\* without the g flag returns the first match.
FirstField(text, fields) ==
  IF \E k \in 1..Len(text) : text[k] \in fields
    THEN FieldValue(text[CHOOSE k \in 1..Len(text) :
                           /\ text[k] \in fields
                           /\ \A j \in 1..(k - 1) : text[j] \notin fields])
    ELSE Absent

\* JSON.parse(text): the text is an object when it is a pair of braces around
\* fields (whitespace allowed); every other text is a SyntaxError.
JsonParse(text) ==
  LET inner == SubSeq(text, 2, Len(text) - 1)
      valid ==
        /\ Len(text) >= 2
        /\ text[1] = "{"
        /\ text[Len(text)] = "}"
        /\ \A k \in 1..Len(inner) :
             inner[k] \in ThoughtFields \cup ReasonFields \cup CuriosityFields
                            \cup {" "}
  IN IF valid
       THEN [threw |-> FALSE,
             value |-> [subconscious_thought |-> LastField(inner, ThoughtFields),
                        curiosity_level |-> LastField(inner, CuriosityFields),
                        reason_for_quitting |-> LastField(inner, ReasonFields)]]
       ELSE [threw |-> TRUE, value |-> EmptyFields]

\* Mutant: the SyntaxError of JSON.parse is not caught.
TryJsonParse_Uncaught(text) ==
  [returned |-> ~JsonParse(text).threw, threw |-> JsonParse(text).threw,
   value |-> JsonParse(text).value]

\* try { return JSON.parse(text); } catch (e) { }
TryJsonParse(text) ==
  [returned |-> ~JsonParse(text).threw, threw |-> FALSE,
   value |-> JsonParse(text).value]

\* The replace calls of the second attempt: every tag is removed, a code
\* fence only at the very start and at the very end.
RemovePollution(text) ==
  LET noTags == SelectSeq(text, LAMBDA piece : piece # "<TOOLCALL>")
      noOpen == IF noTags # <<>> /\ Head(noTags) = "[fence]json"
                  THEN Tail(noTags) ELSE noTags
  IN IF noOpen # <<>> /\ noOpen[Len(noOpen)] = "[fence]"
       THEN SubSeq(noOpen, 1, Len(noOpen) - 1) ELSE noOpen

\* The regex sweep of the third attempt.
RegexSweep(text) ==
  [subconscious_thought |-> FirstField(text, ThoughtFields),
   curiosity_level |-> FirstField(text, CuriosityFields),
   reason_for_quitting |-> FirstField(text, ReasonFields)]

\* extractFunctionArguments(text): threw tells whether an error left the
\* function, fields is the object it returned otherwise.
extractFunctionArguments(text) ==
  IF text = <<>> THEN [threw |-> FALSE, fields |-> EmptyFields]
  ELSE
    LET cleaned == Trim(text)
        firstBrace == IndexOf(cleaned, "{")
        lastBrace == LastIndexOf(cleaned, "}")
        tryOne == firstBrace # 0 /\ lastBrace # 0 /\ lastBrace > firstBrace
        one == TryJsonParse(SubSeq(cleaned, firstBrace, lastBrace))
        robust == Trim(RemovePollution(cleaned))
        first == IndexOf(robust, "{")
        last == LastIndexOf(robust, "}")
        tryTwo == first # 0 /\ last # 0
        two == TryJsonParse(SubSeq(robust, first, last))
    IN IF tryOne /\ one.threw THEN [threw |-> TRUE, fields |-> EmptyFields]
       ELSE IF tryOne /\ one.returned THEN [threw |-> FALSE, fields |-> one.value]
       ELSE IF tryTwo /\ two.threw THEN [threw |-> TRUE, fields |-> EmptyFields]
       ELSE IF tryTwo /\ two.returned THEN [threw |-> FALSE, fields |-> two.value]
       ELSE [threw |-> FALSE, fields |-> RegexSweep(robust)]

\* { ...argsFromText, ...argsFromTool }: a key of argsFromTool wins.
MergeArgs(fromText, fromTool) ==
  [key \in DOMAIN EmptyFields |->
     IF fromTool[key] # Absent THEN fromTool[key] ELSE fromText[key]]

\* ======================================== runAgent: arguments and memory
\* The loop of runAgent with the argument text of the tool calls, the fields
\* recovered from it and the memory list that builds each turn's context.

\* Longest accumulatedArgs of one turn, in pieces.
MaxArgsLen == 4

\* Argument texts a provider delivers with a call: none, a well-formed
\* object with a thought, an object polluted by a tag, a thought outside any
\* object, and an unclosed object.
ArgTexts ==
  {<<>>,
   <<"{", "subconscious_thought:a", "}">>,
   <<"{", "<TOOLCALL>", "subconscious_thought:b", "}">>,
   <<"subconscious_thought:b", "junk">>,
   <<"{", "junk">>}

\* Pieces of assistant text: a neutral word and a thought field.
TurnWords == {"hmm", "subconscious_thought:b"}

\* Mutant: only the latest thought is put into the context.
memoryContext_LatestOnly(memory) ==
  IF memory = <<>> THEN <<>>
  ELSE <<[second |-> Len(memory), thought |-> memory[Len(memory)]]>>

\* memoryContext: one line "- Second k: thought" per entry of the memory
\* list, in order; no line when the list is empty.
memoryContext(memory) ==
  [k \in 1..Len(memory) |-> [second |-> k, thought |-> memory[k]]]

\* `await readJpegDataUrl(...)` resolves: memoryContext is built, the turn's
\* locals are declared and streamToolCalls is invoked.
TurnReadFrameOk ==
  /\ pc = "read"
  /\ tool' = NoTool
  /\ firstValid' = NoTool
  /\ accumulatedArgs' = <<>>
  /\ assistantText' = <<>>
  /\ usedFallback' = FALSE
  /\ decision' = "none"
  /\ requests' = Append(requests, segment.index)
  /\ contexts' = Append(contexts, memoryContext(shortTermMemory))
  /\ inFlight' = inFlight + 1
  /\ pc' = "stream"
  /\ UNCHANGED <<segments, toolsEmpty, i, state, rejections, decisionEvents,
                 stopEvents, onDoneCalls, returned, runError, shortTermMemory,
                 recovered, notTurnVars>>

\* callbacks.onFunctionCall({ name, arguments }).
TurnOnFunctionCall(name, args) ==
  /\ pc = "stream"
  /\ Len(accumulatedArgs) + Len(args) <= MaxArgsLen
  /\ IF name \in ToolNames
       THEN /\ tool' = name
            /\ firstValid' = IF firstValid = NoTool THEN name ELSE firstValid
            /\ accumulatedArgs' = accumulatedArgs \o args
       ELSE UNCHANGED <<tool, firstValid, accumulatedArgs>>
  /\ UNCHANGED <<segments, toolsEmpty, pc, i, state, assistantText,
                 usedFallback, decision, requests, rejections, decisionEvents,
                 stopEvents, onDoneCalls, returned, runError, shortTermMemory,
                 contexts, recovered, inFlight, notTurnVars>>

\* callbacks.onArgumentsDone(args).
TurnOnArgumentsDone(args) ==
  /\ pc = "stream"
  /\ Len(accumulatedArgs) + Len(args) <= MaxArgsLen
  /\ accumulatedArgs' = accumulatedArgs \o args
  /\ UNCHANGED <<segments, toolsEmpty, pc, i, state, tool, assistantText,
                 usedFallback, decision, requests, rejections, decisionEvents,
                 stopEvents, onDoneCalls, returned, runError, firstValid,
                 shortTermMemory, contexts, recovered, inFlight, notTurnVars>>

\* `if (tool === "keep_playing") { if (argsObj.subconscious_thought) { ...
\* shortTermMemory.push(subconsciousThought)`.
PushThought(memory, t, thought) ==
  IF t = "keep_playing" /\ thought # Absent THEN Append(memory, thought)
  ELSE memory

\* The synchronous part of the loop body after the try/catch around
\* streamToolCalls: tool fallback, extraction and merge of the arguments,
\* the push on the memory list, applyDoubleQuitRule, the "decision" event.
TurnAfterStream ==
  LET fallback == tool = NoTool
      t == IF fallback THEN InferTool(Trim(assistantText)) ELSE tool
      argsFromTool == extractFunctionArguments(accumulatedArgs)
      argsFromText == extractFunctionArguments(assistantText)
      argsObj == MergeArgs(argsFromText.fields, argsFromTool.fields)
      pushed == t = "keep_playing" /\ argsObj.subconscious_thought # Absent
      subconsciousThought ==
        IF pushed THEN argsObj.subconscious_thought ELSE Absent
      result == applyDoubleQuitRule(state, t, segment.index)
  IN  IF argsFromTool.threw \/ argsFromText.threw
        THEN /\ pc' = "rejected"
             /\ runError' = "extract"
             /\ UNCHANGED <<state, tool, usedFallback, decision,
                            decisionEvents, shortTermMemory, recovered>>
      ELSE IF t = NoTool
        THEN \* throw new Error("Model did not call a tool ...")
             /\ pc' = "rejected"
             /\ runError' = "no_tool"
             /\ UNCHANGED <<state, tool, usedFallback, decision,
                            decisionEvents, shortTermMemory, recovered>>
        ELSE /\ tool' = t
             /\ usedFallback' = fallback
             /\ shortTermMemory' =
                  PushThought(shortTermMemory, t, argsObj.subconscious_thought)
             /\ recovered' = Append(recovered, argsObj.subconscious_thought)
             /\ state' = result.state
             /\ decision' = result.decision
             /\ decisionEvents' =
                  Append(decisionEvents,
                         [segmentIndex |-> segment.index, tool |-> t,
                          decision |-> result.decision, state |-> result.state,
                          subconscious_thought |-> subconsciousThought])
             /\ pc' = "record"
             /\ UNCHANGED runError

\* streamToolCalls resolves.
TurnResolve ==
  /\ pc = "stream"
  /\ inFlight' = inFlight - 1
  /\ TurnAfterStream
  /\ UNCHANGED <<segments, toolsEmpty, i, assistantText, requests, rejections,
                 stopEvents, onDoneCalls, returned, accumulatedArgs,
                 firstValid, contexts, notTurnVars>>

\* streamToolCalls rejects: `catch (err) { if (!tool) throw err; }`.
TurnReject ==
  /\ pc = "stream"
  /\ inFlight' = inFlight - 1
  /\ IF tool = NoTool
       THEN /\ pc' = "rejected"
            /\ runError' = "client"
            /\ UNCHANGED <<state, tool, usedFallback, decision,
                           decisionEvents, shortTermMemory, recovered>>
       ELSE TurnAfterStream
  /\ UNCHANGED <<segments, toolsEmpty, i, assistantText, requests, rejections,
                 stopEvents, onDoneCalls, returned, accumulatedArgs,
                 firstValid, contexts, notTurnVars>>

TurnsInit ==
  /\ \E n \in 1..MaxSegments : segments = segmentVideo(n)
  /\ toolsEmpty = FALSE
  /\ RunIdle
  /\ RuleIdle
  /\ ClientIdle
  /\ StreamIdle
  /\ OrchIdle
  /\ MoreIdle

TurnsNext ==
  \/ Start
  \/ TurnReadFrameOk
  \/ ReadFrameFail
  \/ \E name \in CallNames, args \in ArgTexts : TurnOnFunctionCall(name, args)
  \/ \E args \in ArgTexts \ {<<>>} : TurnOnArgumentsDone(args)
  \/ \E word \in TurnWords : OnTextDelta(word)
  \/ TurnResolve
  \/ TurnReject
  \/ RecordSettled

SpecTurns == TurnsInit /\ [][TurnsNext]_vars

\* ------------------------------------------------- claims on the turns
\* JSON.parse rejects the text in both attempts of extractFunctionArguments.
Unparsable(text) ==
  /\ text # <<>>
  /\ \A a \in 1..Len(text), b \in 1..Len(text) :
       /\ JsonParse(SubSeq(text, a, b)).threw
       /\ JsonParse(SubSeq(RemovePollution(text), a, b)).threw

\* C25: malformed model output is never raised as an error: no error leaves
\* extractFunctionArguments, runAgent fails only when a frame cannot be read
\* or the client rejected before any tool was seen, and a turn whose streamed
\* arguments and assistant text are both unparsable ends with a decision for
\* its segment.
C25_MalformedNeverRaised ==
  /\ runError \in {"none", "frame", "client"}
  /\ runError = "client" => tool = NoTool
  /\ (pc = "record" /\ Unparsable(accumulatedArgs) /\ Unparsable(assistantText))
     => /\ decision \in {"continue", "stop"}
        /\ Len(decisionEvents) = Len(requests)
        /\ decisionEvents[Len(decisionEvents)].segmentIndex = segment.index
        /\ decisionEvents[Len(decisionEvents)].decision = decision

\* C25 witness: no tool call was seen, the arguments are an unclosed object
\* and the text a lone word, and the turn ended with the decision continue.
C25_Witness ==
  /\ pc = "record"
  /\ accumulatedArgs = <<"{", "junk">>
  /\ assistantText = <<"hmm">>
  /\ usedFallback
  /\ decision = "continue"
  /\ recovered[Len(recovered)] = Absent

\* C28: when several valid tool calls are observed in one turn, the tool given
\* to applyDoubleQuitRule is the first valid tool name observed.
C28_FirstValidToolApplied ==
  (pc = "record" /\ firstValid # NoTool)
  => decisionEvents[Len(decisionEvents)].tool = firstValid

\* The memory list as it was when the current turn's request was built.
MemoryAtRequest ==
  [k \in 1..Len(contexts[Len(contexts)]) |->
     contexts[Len(contexts)][k].thought]

\* C29: a thought is appended to the memory list in a turn exactly when the
\* turn's decision is continue and a thought field was recovered, whichever
\* tool was observed; on a stop decision nothing is appended.
C29_ThoughtAppendedOnContinue ==
  pc = "record"
  => shortTermMemory =
       IF decision = "continue" /\ recovered[Len(recovered)] # Absent
         THEN Append(MemoryAtRequest, recovered[Len(recovered)])
         ELSE MemoryAtRequest

\* The thoughts the first n decision events report as appended, in order.
RECURSIVE AppendedThoughts(_)
AppendedThoughts(n) ==
  IF n = 0 THEN <<>>
  ELSE IF decisionEvents[n].subconscious_thought # Absent
    THEN Append(AppendedThoughts(n - 1), decisionEvents[n].subconscious_thought)
    ELSE AppendedThoughts(n - 1)

\* C30: within one agent the segments are processed in index order and one
\* at a time: request k is for segment k - 1 and is issued only after the
\* decision of request k - 1 was applied, at most one streamToolCalls call is
\* in flight, and the context of each request holds exactly the thoughts
\* appended in earlier turns, numbered in the order they were appended.
C30_SequentialTurns ==
  /\ inFlight \in 0..1
  /\ inFlight = 1 <=> pc = "stream"
  /\ Len(requests) <= Len(segments)
  /\ \A k \in 1..Len(requests) : requests[k] = segments[k].index
  /\ Len(contexts) = Len(requests)
  /\ Len(requests) - Len(decisionEvents) \in 0..1
  /\ pc = "stream" => Len(decisionEvents) = Len(requests) - 1
  /\ \A k \in 1..Len(decisionEvents) :
       /\ decisionEvents[k].segmentIndex = requests[k]
       /\ decisionEvents[k].decision = "stop" => k = Len(requests)
  /\ \A k \in 1..Len(contexts) :
       LET earlier == AppendedThoughts(k - 1)
       IN /\ Len(contexts[k]) = Len(earlier)
          /\ \A j \in 1..Len(earlier) :
               contexts[k][j] = [second |-> j, thought |-> earlier[j]]

\* C30 witness: the third request is in flight and its context holds the
\* thoughts of the first two turns in their order.
C30_Witness ==
  /\ pc = "stream"
  /\ requests = <<0, 1, 2>>
  /\ inFlight = 1
  /\ contexts[3] = <<[second |-> 1, thought |-> "a"],
                     [second |-> 2, thought |-> "b"]>>

\* ================================================ agents side by side
\* buildSimulation starts one runAgent call per persona over the same segment
\* list and the same client; the calls interleave at their awaits.  A turn is
\* the request and the settled response of one streamToolCalls call.

\* Most segments of the video the agents watch together.
MaxShared == 2

\* What one streamToolCalls call delivers to its callbacks: a tool and the
\* thought found in its arguments.
AgentResponses ==
  {[tool |-> "keep_playing", thought |-> "a"],
   [tool |-> "keep_playing", thought |-> Absent],
   [tool |-> "quit_video", thought |-> Absent]}

\* Mutant: one memory list for all calls of runAgent.
MemoryOf_Shared(p) == 1

\* The owner of the list `const shortTermMemory: string[] = []`: it is
\* declared inside runAgent, one list per call.
MemoryOf(p) == p

AgentsInit ==
  /\ \E n \in 1..MaxShared : segments = segmentVideo(n)
  /\ personaCount \in 2..MaxAgents
  /\ agents = [p \in 1..personaCount |->
                 [pc |-> "read", i |-> 0, state |-> initialAgentState,
                  context |-> <<>>, responses |-> <<>>, returned |-> <<>>]]
  /\ memories = [p \in 1..personaCount |-> <<>>]
  /\ atFailure = <<>>
  /\ toolsEmpty = FALSE
  /\ RunIdle
  /\ RuleIdle
  /\ ClientIdle
  /\ StreamIdle
  /\ OrchIdle
  /\ SummaryIdle
  /\ TurnIdle
  /\ RecorderIdle
  /\ UiIdle
  /\ CaptureIdle

\* Agent p builds memoryContext from its memory list and invokes
\* streamToolCalls for its next segment.
AgentRequest(p) ==
  /\ agents[p].pc = "read"
  /\ agents' = [agents EXCEPT
                  ![p].pc = "stream",
                  ![p].context = memoryContext(memories[MemoryOf(p)])]
  /\ UNCHANGED <<personaCount, memories, atFailure, notAgentsVars>>

\* The streamToolCalls call of agent p settles after delivering resp: the
\* memory push, applyDoubleQuitRule, and the end of the loop body up to the
\* next iteration or the return.
AgentRespond(p, resp) ==
  LET a == agents[p]
      result == applyDoubleQuitRule(a.state, resp.tool, segments[a.i + 1].index)
      stop == result.decision = "stop"
      more == LoopContinues(a.i + 1, segments)
  IN /\ a.pc = "stream"
     /\ memories' = [memories EXCEPT
                       ![MemoryOf(p)] = PushThought(@, resp.tool, resp.thought)]
     /\ agents' = [agents EXCEPT
          ![p].state = result.state,
          ![p].responses = Append(@, resp),
          ![p].i = IF stop THEN a.i ELSE a.i + 1,
          ![p].pc = IF stop \/ ~more THEN "returned" ELSE "read",
          ![p].returned =
            IF stop THEN <<[stopSegmentIndex |-> result.state.stopSegmentIndex]>>
            ELSE IF ~more THEN <<[stopSegmentIndex |-> Undefined]>>
            ELSE <<>>]
     /\ UNCHANGED <<personaCount, atFailure, notAgentsVars>>

AgentsNext ==
  \E p \in 1..personaCount :
    \/ AgentRequest(p)
    \/ \E resp \in AgentResponses : AgentRespond(p, resp)

SpecAgents == AgentsInit /\ [][AgentsNext]_vars

\* ------------------------------------------ claims on agents side by side
\* What a lone agent holds after the responses log, starting from st and
\* memory at loop position idx.
RECURSIVE Alone(_, _, _, _)
Alone(log, st, memory, idx) ==
  IF log = <<>> THEN [state |-> st, memory |-> memory, i |-> idx]
  ELSE LET resp == Head(log)
           result == applyDoubleQuitRule(st, resp.tool, segments[idx + 1].index)
       IN Alone(Tail(log), result.state,
                PushThought(memory, resp.tool, resp.thought),
                IF result.decision = "stop" THEN idx ELSE idx + 1)

\* C22: under every interleaving of N agents over one segment list, the
\* state, memory list, context and result of each agent are those of an agent
\* that ran alone and received the same responses, so no memory list holds a
\* thought recovered in another agent's turn; an agent whose responses were
\* all keep_playing returns after the last segment with no stopSegmentIndex.
C22_AgentsIndependent ==
  \A p \in 1..personaCount :
    LET a == agents[p]
        alone == Alone(a.responses, initialAgentState, <<>>, 0)
    IN /\ a.state = alone.state
       /\ a.i = alone.i
       /\ memories[p] = alone.memory
       /\ a.pc = "stream" => a.context = memoryContext(alone.memory)
       /\ a.returned # <<>> =>
            a.returned[1].stopSegmentIndex = alone.state.stopSegmentIndex
       /\ (a.pc = "returned"
           /\ \A k \in 1..Len(a.responses) : a.responses[k].tool = "keep_playing")
          => /\ a.returned = <<[stopSegmentIndex |-> Undefined]>>
             /\ Len(a.responses) = Len(segments)

\* C22 witness: three agents over two segments, all returned; the first got
\* keep_playing with a thought twice, the second keep_playing without a
\* thought, the third quit twice.
C22_Witness ==
  /\ personaCount = 3
  /\ Len(segments) = 2
  /\ \A p \in 1..3 : agents[p].pc = "returned"
  /\ memories = <<(<<"a", "a">>), <<>>, <<>>>>
  /\ agents[1].returned = <<[stopSegmentIndex |-> Undefined]>>
  /\ agents[2].returned = <<[stopSegmentIndex |-> Undefined]>>
  /\ Len(agents[2].responses) = 2
  /\ agents[3].returned = <<[stopSegmentIndex |-> 1]>>

\* ================================================ a batch that fails
\* The agents side by side as above, where a streamToolCalls call may also
\* end in a fatal error that rejects its runAgent call, and buildSimulation,
\* awaiting Promise.all, rejects with the first such error.  runAgent is given
\* no signal by buildSimulation, and its own AbortController is never
\* aborted.

\* The streamToolCalls call of agent p rejects before a tool was seen, or the
\* turn ends without a tool: runAgent throws.
AgentFail(p) ==
  /\ agents[p].pc = "stream"
  /\ agents' = [agents EXCEPT ![p].pc = "rejected"]
  /\ UNCHANGED <<personaCount, memories, atFailure, notAgentsVars>>

\* Promise.all rejects as soon as one runAgent call has: the catch block of
\* buildSimulation records the error and rethrows it; the server sends the
\* error event and closes the socket.
BatchFail ==
  /\ opc = "idle"
  /\ \E p \in 1..personaCount : agents[p].pc = "rejected"
  /\ opc' = "failed"
  /\ joinError' = CHOOSE p \in 1..personaCount : agents[p].pc = "rejected"
  /\ atFailure' = [p \in 1..personaCount |->
                     [pc |-> agents[p].pc,
                      responses |-> Len(agents[p].responses)]]
  /\ UNCHANGED <<personaCount, agents, memories, agentCount, runStatus,
                 runResult, finishOrder, summaryRows, cancelledAt, runVars,
                 ruleVars, clientVars, streamVars, summaryVars, turnVars,
                 recorderVars, uiVars, captureVars>>

BatchNext ==
  \/ \E p \in 1..personaCount : AgentRequest(p)
  \/ \E p \in 1..personaCount, resp \in AgentResponses : AgentRespond(p, resp)
  \/ \E p \in 1..personaCount : AgentFail(p)
  \/ BatchFail

SpecBatch == AgentsInit /\ [][BatchNext]_vars

\* C37: once the batch has failed, no other agent issues a further provider
\* request or emits a further segment-decision or stop event: every agent has
\* handled as many responses as when the batch failed, and one that waits for
\* a response was already waiting for it then.
C37_FailureStopsTheOthers ==
  opc = "failed"
  => \A p \in 1..personaCount :
       /\ Len(agents[p].responses) = atFailure[p].responses
       /\ agents[p].pc = "stream" => atFailure[p].pc = "stream"

\* =========================================== createAgentOutputRecorder
\* record(r) chains `appendFile(filePath, line)` behind the previous append
\* and returns the chain; flush() returns the chain as it is when called.  A
\* line reaches the file in two parts, so that two appends running at once
\* would show as parts of different lines next to each other.

\* Most record() calls on one recorder.
MaxRecords == 3
\* Most flush() calls on one recorder.
MaxFlushes == 2

\* The two parts of the line of record k.
LineOf(k) == <<[record |-> k, part |-> "head"], [record |-> k, part |-> "tail"]>>

\* Mutant: every record calls appendFile without waiting for the chain.
Startable_Unchained(queue, running, failed) ==
  {queue[k] : k \in 1..Len(queue)}

\* The records whose `.then(() => appendFile(...))` callback can run: the
\* oldest one waiting, once the append before it has been fulfilled; none
\* after a rejection, which every later link of the chain inherits.
Startable(queue, running, failed) ==
  IF failed = 0 /\ running = {} /\ queue # <<>> THEN {Head(queue)} ELSE {}

\* record(record).
Record ==
  /\ recordCalls < MaxRecords
  /\ recordCalls' = recordCalls + 1
  /\ chain' = Append(chain, recordCalls + 1)
  /\ UNCHANGED <<appending, file, failedAt, flushes, notRecorderVars>>

\* The chain reaches record k: appendFile is called and starts writing.
AppendStart(k) ==
  /\ k \in Startable(chain, appending, failedAt)
  /\ chain' = SelectSeq(chain, LAMBDA r : r # k)
  /\ appending' = appending \cup {k}
  /\ file' = Append(file, LineOf(k)[1])
  /\ UNCHANGED <<recordCalls, failedAt, flushes, notRecorderVars>>

\* appendFile for record k is fulfilled.
AppendDone(k) ==
  /\ k \in appending
  /\ appending' = appending \ {k}
  /\ file' = Append(file, LineOf(k)[2])
  /\ UNCHANGED <<recordCalls, chain, failedAt, flushes, notRecorderVars>>

\* appendFile for record k rejects: the chain is rejected from here on.
AppendFail(k) ==
  /\ k \in appending
  /\ failedAt = 0
  /\ appending' = appending \ {k}
  /\ failedAt' = k
  /\ UNCHANGED <<recordCalls, chain, file, flushes, notRecorderVars>>

\* flush(): the caller gets the chain of the records passed so far.
Flush ==
  /\ Len(flushes) < MaxFlushes
  /\ flushes' = Append(flushes, [upTo |-> recordCalls, status |-> "pending",
                                 seen |-> <<>>])
  /\ UNCHANGED <<recordCalls, chain, appending, file, failedAt, notRecorderVars>>

\* The promise of flush call f settles: fulfilled once the append of its last
\* record is, rejected if an append up to that record rejected.  seen is the
\* file as the caller finds it.
FlushSettle(f) ==
  LET upTo == flushes[f].upTo
      fulfilled ==
        \/ upTo = 0
        \/ \E k \in 1..Len(file) : file[k] = LineOf(upTo)[2]
      rejected == failedAt # 0 /\ failedAt <= upTo
  IN /\ flushes[f].status = "pending"
     /\ fulfilled \/ rejected
     /\ flushes' = [flushes EXCEPT
                      ![f].status = IF fulfilled THEN "resolved" ELSE "rejected",
                      ![f].seen = file]
     /\ UNCHANGED <<recordCalls, chain, appending, file, failedAt,
                    notRecorderVars>>

RecorderInit ==
  /\ segments = <<>>
  /\ toolsEmpty = FALSE
  /\ RunIdle
  /\ RuleIdle
  /\ ClientIdle
  /\ StreamIdle
  /\ OrchIdle
  /\ MoreIdle

RecorderNext ==
  \/ Record
  \/ \E k \in 1..MaxRecords : AppendStart(k)
  \/ \E k \in 1..MaxRecords : AppendDone(k)
  \/ \E k \in 1..MaxRecords : AppendFail(k)
  \/ Flush
  \/ \E f \in 1..Len(flushes) : FlushSettle(f)

SpecRecorder == RecorderInit /\ [][RecorderNext]_vars

\* ------------------------------------------------ claims on the recorder
\* The complete lines of records 1..n, in call order.
RECURSIVE LinesUpTo(_)
LinesUpTo(n) == IF n = 0 THEN <<>> ELSE LinesUpTo(n - 1) \o LineOf(n)

IsPrefix(short, long) ==
  /\ Len(short) <= Len(long)
  /\ \A k \in 1..Len(short) : short[k] = long[k]

\* C26: whatever the order of record() and flush() calls and of the
\* completions, at most one append runs at a time, the file grows line by
\* line in call order, and when a flush() resolves the file holds one
\* complete line for every record() call made before it, in call order, with
\* nothing between or inside them.
C26_RecordsSerialized ==
  /\ Cardinality(appending) <= 1
  /\ IsPrefix(file, LinesUpTo(recordCalls))
  /\ \A f \in 1..Len(flushes) :
       flushes[f].status = "resolved"
       => /\ IsPrefix(LinesUpTo(flushes[f].upTo), flushes[f].seen)
          /\ IsPrefix(flushes[f].seen, LinesUpTo(recordCalls))

\* C26 witness: three record() calls, then flush(); the flush resolved and
\* found the three lines.
C26_Witness ==
  /\ recordCalls = 3
  /\ Len(flushes) = 1
  /\ flushes[1] = [upTo |-> 3, status |-> "resolved", seen |-> LinesUpTo(3)]
  /\ file = LinesUpTo(3)

\* C40: a failed append stays with its own record.  The promise a caller
\* holds for the records up to k (the chain after record k, which record()
\* and flush() return) rejects only if the append of record k itself failed,
\* and a record passed after a failed append is still written: whenever one
\* waits and no append runs, its append can start.
C40_FailureStaysLocal ==
  /\ \A f \in 1..Len(flushes) :
       flushes[f].status = "rejected" => failedAt = flushes[f].upTo
  /\ (failedAt # 0 /\ chain # <<>> /\ appending = {})
     => Startable(chain, appending, failedAt) # {}

\* ================================================ MultiAgentProgressUi
\* The calls on one MultiAgentProgressUi and the render microtask, in any
\* order.  uiLog holds a mark for each call and, after it, what the call
\* wrote on the stream: "enter" (alternate screen, cursor hidden), "frame",
\* "restore" (cursor shown, alternate screen left), "show_cursor", "newline"
\* and "summary".

\* Most calls and microtasks of one run.
MaxUiCalls == 5

UiCalls ==
  {"start()", "stop()", "onSegment()", "onDone()", "finish()", "microtask"}

\* Mutant: renderNow draws whether or not the UI is started.
CanRender_Always(st) == TRUE

\* renderNow: `if (!this.started) return;`
CanRender(st) == st

\* renderNow()
renderNow(st, log) == IF CanRender(st) THEN Append(log, "frame") ELSE log

\* The writes of restoreTerminal(options).
restoreTerminal(alt, newline, log) ==
  LET shown == Append(log, IF alt THEN "restore" ELSE "show_cursor")
  IN IF newline THEN Append(shown, "newline") ELSE shown

\* start()
UiStart ==
  /\ Len(SelectSeq(uiLog, LAMBDA e : e \in UiCalls)) < MaxUiCalls
  /\ IF ~isTTY \/ started
       THEN /\ uiLog' = Append(uiLog, "start()")
            /\ UNCHANGED <<started, usingAltScreen>>
       ELSE /\ started' = TRUE
            /\ usingAltScreen' = TRUE
            /\ uiLog' = renderNow(TRUE, Append(Append(uiLog, "start()"), "enter"))
  /\ UNCHANGED <<isTTY, scheduled, wroteFinalSummary, notUiVars>>

\* stop(options)
UiStop(newline) ==
  /\ Len(SelectSeq(uiLog, LAMBDA e : e \in UiCalls)) < MaxUiCalls
  /\ IF ~started
       THEN /\ uiLog' = Append(uiLog, "stop()")
            /\ UNCHANGED <<started, usingAltScreen>>
       ELSE /\ uiLog' = restoreTerminal(usingAltScreen, newline,
                                        Append(uiLog, "stop()"))
            /\ usingAltScreen' = FALSE
            /\ started' = FALSE
  /\ UNCHANGED <<isTTY, scheduled, wroteFinalSummary, notUiVars>>

\* scheduleRender(), after a call marked by mark.
scheduleRender(mark) ==
  /\ uiLog' = Append(uiLog, mark)
  /\ scheduled' = IF started THEN TRUE ELSE scheduled
  /\ UNCHANGED <<isTTY, started, usingAltScreen, wroteFinalSummary, notUiVars>>

\* onSegment(update): the row of a known agent is updated and a render is
\* scheduled; an update for an unknown agent is dropped.
UiOnSegment(known) ==
  /\ Len(SelectSeq(uiLog, LAMBDA e : e \in UiCalls)) < MaxUiCalls
  /\ IF known THEN scheduleRender("onSegment()")
     ELSE /\ uiLog' = Append(uiLog, "onSegment()")
          /\ UNCHANGED <<isTTY, started, scheduled, usingAltScreen,
                         wroteFinalSummary, notUiVars>>

\* onDone(agentId, stopSegmentIndex)
UiOnDone(known) ==
  /\ Len(SelectSeq(uiLog, LAMBDA e : e \in UiCalls)) < MaxUiCalls
  /\ IF known THEN scheduleRender("onDone()")
     ELSE /\ uiLog' = Append(uiLog, "onDone()")
          /\ UNCHANGED <<isTTY, started, scheduled, usingAltScreen,
                         wroteFinalSummary, notUiVars>>

\* finish(summary): a last frame, restoreTerminal({ newline: true }) and
\* writeFinalSummary.
UiFinish ==
  /\ Len(SelectSeq(uiLog, LAMBDA e : e \in UiCalls)) < MaxUiCalls
  /\ IF ~started
       THEN /\ uiLog' = Append(uiLog, "finish()")
            /\ UNCHANGED <<started, usingAltScreen, wroteFinalSummary>>
       ELSE LET restored ==
                  restoreTerminal(usingAltScreen, TRUE,
                                  renderNow(started, Append(uiLog, "finish()")))
            IN /\ uiLog' = IF wroteFinalSummary THEN restored
                           ELSE Append(restored, "summary")
               /\ wroteFinalSummary' = TRUE
               /\ usingAltScreen' = FALSE
               /\ started' = FALSE
  /\ UNCHANGED <<isTTY, scheduled, notUiVars>>

\* The callback given to queueMicrotask by scheduleRender runs.
UiMicrotask ==
  /\ scheduled
  /\ scheduled' = FALSE
  /\ uiLog' = renderNow(started, Append(uiLog, "microtask"))
  /\ UNCHANGED <<isTTY, started, usingAltScreen, wroteFinalSummary, notUiVars>>

UiInit ==
  /\ isTTY \in BOOLEAN
  /\ started = FALSE
  /\ scheduled = FALSE
  /\ usingAltScreen = FALSE
  /\ wroteFinalSummary = FALSE
  /\ uiLog = <<>>
  /\ segments = <<>>
  /\ toolsEmpty = FALSE
  /\ RunIdle
  /\ RuleIdle
  /\ ClientIdle
  /\ StreamIdle
  /\ OrchIdle
  /\ SummaryIdle
  /\ TurnIdle
  /\ AgentsIdle
  /\ RecorderIdle
  /\ CaptureIdle

UiNext ==
  \/ UiStart
  \/ \E newline \in BOOLEAN : UiStop(newline)
  \/ \E known \in BOOLEAN : UiOnSegment(known)
  \/ \E known \in BOOLEAN : UiOnDone(known)
  \/ UiFinish
  \/ UiMicrotask

SpecUi == UiInit /\ [][UiNext]_vars

\* --------------------------------------------- claims on the progress UI
\* Whether the terminal is on the alternate screen after the first n entries
\* of uiLog.
RECURSIVE OnAltScreen(_)
OnAltScreen(n) ==
  IF n = 0 THEN FALSE
  ELSE IF uiLog[n] = "enter" THEN TRUE
  ELSE IF uiLog[n] = "restore" THEN FALSE
  ELSE OnAltScreen(n - 1)

\* The latest of the calls start(), stop() and finish() among the first n
\* entries of uiLog ("none" if there is none).
RECURSIVE LatestCall(_)
LatestCall(n) ==
  IF n = 0 THEN "none"
  ELSE IF uiLog[n] \in {"start()", "stop()", "finish()"} THEN uiLog[n]
  ELSE LatestCall(n - 1)

\* C27: the terminal is restored exactly once per start(): the screen is
\* entered only from the normal terminal and restored only from the
\* alternate screen, it is on the alternate screen exactly while the UI is
\* started, a stop() that follows a stop() or finish() writes nothing, and
\* every frame is written on the alternate screen, also the frame of a
\* render that was scheduled before the terminal was restored.
C27_TerminalRestoredOnce ==
  /\ started <=> OnAltScreen(Len(uiLog))
  /\ started <=> usingAltScreen
  /\ \A k \in 1..Len(uiLog) :
       /\ uiLog[k] = "enter" => ~OnAltScreen(k - 1)
       /\ uiLog[k] = "restore" => OnAltScreen(k - 1)
       /\ uiLog[k] = "frame" => OnAltScreen(k - 1)
       /\ uiLog[k] # "show_cursor"
       /\ (uiLog[k] = "stop()" /\ LatestCall(k - 1) \in {"stop()", "finish()"})
          => (k = Len(uiLog) \/ uiLog[k + 1] \in UiCalls)
       /\ (uiLog[k] = "microtask" /\ ~OnAltScreen(k - 1))
          => (k = Len(uiLog) \/ uiLog[k + 1] \in UiCalls)

\* C27 witness: a render was scheduled, stop() restored the terminal, the
\* microtask ran without writing and a second stop() wrote nothing.
C27_Witness ==
  uiLog = <<"start()", "enter", "frame", "onSegment()", "stop()", "restore",
            "microtask", "stop()">>


\* ================== runAgent: what one turn captures from streamToolCalls
\* One turn of runAgent together with the attempts of the streamToolCalls
\* call it awaits.  The client declares partialToolCalls anew in every attempt
\* (openrouterClient.ts:173-176); runAgent declares tool, accumulatedArgs and
\* assistantText once per turn (agentRunner.ts:358-362) and its callbacks
\* write to them in every attempt.  The video has one segment, so the run has
\* one turn.

\* Parsed events processed in one attempt, at most.
MaxDelivered == 2

\* Candidate models tried, at most.
MaxTried == 2

\* function.arguments of a tool-call chunk.
CaptureArgs ==
  [keep_playing |-> {<<>>, <<"{", "subconscious_thought:a", "}">>},
   quit_video |-> {<<>>, <<"{", "reason_for_quitting:r", "}">>}]

\* One parsed event: delta.content, delta.tool_calls and finish_reason.
CaptureEvents ==
  { [content |-> <<"hmm">>, toolCalls |-> <<>>, finish |-> NoFinish],
    [content |-> <<>>,
     toolCalls |-> <<Chunk(0, NoName, NoName, <<"subconscious_thought:b">>)>>,
     finish |-> NoFinish] }
  \cup { [content |-> <<>>, toolCalls |-> <<Chunk(0, n, NoName, a)>>,
          finish |-> f] :
           n \in {"keep_playing"}, a \in CaptureArgs.keep_playing,
           f \in {NoFinish, "tool_calls"} }
  \cup { [content |-> <<>>, toolCalls |-> <<Chunk(0, n, NoName, a)>>,
          finish |-> f] :
           n \in {"quit_video"}, a \in CaptureArgs.quit_video,
           f \in {NoFinish, "tool_calls"} }

\* callbacks.onFunctionCall(call) on the locals l.
OnFunctionCallLocals(l, call) ==
  IF call.name \in ToolNames
    THEN [l EXCEPT !.tool = call.name, !.args = l.args \o call.arguments]
    ELSE l

RECURSIVE OnFunctionCalls(_, _)
OnFunctionCalls(l, calls) ==
  IF calls = <<>> THEN l
  ELSE OnFunctionCalls(OnFunctionCallLocals(l, Head(calls)), Tail(calls))

\* callbacks.onEvent(raw): `if (!logModelOutput) return;` and then
\* `accumulatedArgs += delta.tool_calls[0].function.arguments`.
OnEventLocals(l, e, log) ==
  IF log /\ e.toolCalls # <<>>
    THEN [l EXCEPT !.args = l.args \o e.toolCalls[1].args]
    ELSE l

\* The callbacks the client raises for one parsed event e, in its order
\* (onEvent, onTextDelta, onFunctionCall for calls, onArgumentsDone), applied
\* to the locals l of runAgent.
Capture(l, e, calls, log) ==
  LET l1 == OnEventLocals(l, e, log)
      l2 == [l1 EXCEPT !.text = l1.text \o e.content]
      l3 == OnFunctionCalls(l2, calls)
  IN IF e.finish = "tool_calls"
       THEN [l3 EXCEPT !.args = l3.args \o JoinArgs(e.toolCalls)]
       ELSE l3

\* The running attempt processes one parsed event.
CaptureEvent(e) ==
  /\ pc = "stream"
  /\ Len(provided) < MaxDelivered
  /\ provided' = Append(provided, e)
  /\ LET out == MergeChunks(e.toolCalls, partialToolCalls, <<>>)
         now == Capture([tool |-> tool, args |-> accumulatedArgs,
                         text |-> assistantText],
                        e, out.calls, logModelOutput)
     IN /\ partialToolCalls' = out.partials
        /\ tool' = now.tool
        /\ accumulatedArgs' = now.args
        /\ assistantText' = now.text
        /\ firstValid' = IF firstValid = NoTool THEN now.tool ELSE firstValid
        /\ attemptLocals' =
             Capture(attemptLocals, e, out.calls, logModelOutput)
        /\ quietArgs' =
             Capture([tool |-> tool, args |-> quietArgs,
                      text |-> assistantText], e, out.calls, FALSE).args
  /\ UNCHANGED <<segments, toolsEmpty, pc, i, state, usedFallback, decision,
                 requests, rejections, decisionEvents, stopEvents,
                 onDoneCalls, returned, runError, shortTermMemory, contexts,
                 recovered, inFlight, logModelOutput, attemptLimit, attemptNo,
                 outcome, lineVars, functionCalls, argumentsDone,
                 finishReasons, textDeltas, kpc, ruleVars, clientVars,
                 orchVars, summaryVars, agentsVars, recorderVars, uiVars>>

\* The running attempt fails (non-2xx status, fetch or reader.read() throws
\* without an abort) and is not the last: the catch block sleeps and the loop
\* continues with the next model, whose attempt declares its own buffer and
\* partialToolCalls.  Nothing of runAgent is touched.
CaptureRetry ==
  /\ pc = "stream"
  /\ attemptNo + 1 < attemptLimit
  /\ attemptNo' = attemptNo + 1
  /\ provided' = <<>>
  /\ partialToolCalls' = [idx \in 0..1 |-> NoPartial]
  /\ attemptLocals' = FreshLocals
  /\ UNCHANGED <<runVars, turnVars, logModelOutput, attemptLimit, quietArgs,
                 outcome, lineVars, functionCalls, argumentsDone,
                 finishReasons, textDeltas, kpc, ruleVars, clientVars,
                 orchVars, summaryVars, agentsVars, recorderVars, uiVars>>

\* The stream of the running attempt ends: streamToolCalls returns.
CaptureResolve ==
  /\ pc = "stream"
  /\ inFlight' = inFlight - 1
  /\ outcome' = "resolved"
  /\ TurnAfterStream
  /\ UNCHANGED <<segments, toolsEmpty, i, assistantText, requests, rejections,
                 stopEvents, onDoneCalls, returned, accumulatedArgs,
                 firstValid, contexts, logModelOutput, attemptLimit,
                 attemptNo, attemptLocals, quietArgs, coreVars, summaryVars,
                 agentsVars, recorderVars, uiVars>>

\* The last attempt fails: streamToolCalls rejects and runAgent goes on only
\* if a tool was seen (`if (!tool) throw err`).
CaptureReject ==
  /\ pc = "stream"
  /\ attemptNo + 1 >= attemptLimit
  /\ inFlight' = inFlight - 1
  /\ outcome' = "rejected"
  /\ IF tool = NoTool
       THEN /\ pc' = "rejected"
            /\ runError' = "client"
            /\ UNCHANGED <<state, tool, usedFallback, decision,
                           decisionEvents, shortTermMemory, recovered>>
       ELSE TurnAfterStream
  /\ UNCHANGED <<segments, toolsEmpty, i, assistantText, requests, rejections,
                 stopEvents, onDoneCalls, returned, accumulatedArgs,
                 firstValid, contexts, logModelOutput, attemptLimit,
                 attemptNo, attemptLocals, quietArgs, coreVars, summaryVars,
                 agentsVars, recorderVars, uiVars>>

CaptureInit ==
  /\ segments = segmentVideo(1)
  /\ toolsEmpty = FALSE
  /\ logModelOutput \in BOOLEAN
  /\ attemptLimit \in 1..MaxTried
  /\ attemptNo = 0
  /\ attemptLocals = FreshLocals
  /\ quietArgs = <<>>
  /\ outcome = "pending"
  /\ content = <<>>
  /\ readPos = 0
  /\ readSizes = <<>>
  /\ buffer = <<>>
  /\ linePayloads = <<>>
  /\ lpc = "idle"
  /\ provided = <<>>
  /\ partialToolCalls = [idx \in 0..1 |-> NoPartial]
  /\ functionCalls = <<>>
  /\ argumentsDone = <<>>
  /\ finishReasons = <<>>
  /\ textDeltas = <<>>
  /\ kpc = "idle"
  /\ RunIdle
  /\ RuleIdle
  /\ ClientIdle
  /\ OrchIdle
  /\ SummaryIdle
  /\ TurnIdle
  /\ AgentsIdle
  /\ RecorderIdle
  /\ UiIdle

CaptureNext ==
  \/ Start
  \/ TurnReadFrameOk
  \/ ReadFrameFail
  \/ \E e \in CaptureEvents : CaptureEvent(e)
  \/ CaptureRetry
  \/ CaptureResolve
  \/ CaptureReject
  \/ RecordSettled

SpecCapture == CaptureInit /\ [][CaptureNext]_vars

\* --------------------------------------------- claims on the capture
\* What the turn decides from the locals l: the tool after the fallback and
\* the recovered thought.
DecidedFrom(l) ==
  LET t == IF l.tool = NoTool THEN InferTool(Trim(l.text)) ELSE l.tool
      fields == MergeArgs(extractFunctionArguments(l.text).fields,
                          extractFunctionArguments(l.args).fields)
  IN [tool |-> t, thought |-> fields.subconscious_thought]

\* C34: when an attempt failed after part of its stream was delivered and a
\* later attempt succeeded, the tool name, the argument text and the
\* assistant text used for the decision are those the successful attempt
\* delivered, and so are the tool decided and the recovered thought.
C34_OnlySuccessfulAttemptCounts ==
  (outcome = "resolved" /\ attemptNo > 0 /\ decisionEvents # <<>>)
  => /\ accumulatedArgs = attemptLocals.args
     /\ assistantText = attemptLocals.text
     /\ decisionEvents[1].tool = DecidedFrom(attemptLocals).tool
     /\ recovered[1] = DecidedFrom(attemptLocals).thought

\* C35: the decision, the recovered thought and raw_function_args of a turn
\* are what they would be with logModelOutput off.
C35_LoggingChangesNothing ==
  decisionEvents # <<>>
  => /\ accumulatedArgs = quietArgs
     /\ recovered[1] =
          DecidedFrom([tool |-> decisionEvents[1].tool, args |-> quietArgs,
                       text |-> assistantText]).thought

====
